---------------------------- MODULE Spec2Model ----------------------------
(***************************************************************************)
(* A model of noak.  Encode side: the switch-table instruction writer      *)
(* (writer/attributes/code/instructions/tableswitch.rs) and the buffer     *)
(* encoders and counted / length-prefixed writers (writer/encoding.rs).    *)
(* Decode side: the Decoder cursor, its sub-decoders and DecodeCounted     *)
(* (reader/decoding.rs) and the field table (reader/fields.rs).            *)
(*                                                                         *)
(* Byte buffers are sequences of numbers 0..255.  TLC's integers are       *)
(* 32 bits wide, so the 32-bit types of the code (i32, u32) are modelled   *)
(* as two's-complement integers of WordBits bits: every cast and every     *)
(* wrapping operation is taken modulo 2^WordBits, and a slice may be       *)
(* longer than the largest u32 (usize is wider than u32).  u8 and u16      *)
(* keep their real width.                                                  *)
(***************************************************************************)
EXTENDS Integers, Sequences, FiniteSets, TLC

VARIABLES
    buf,        \* class_writer.encoder.buf : the output bytes
    pool_end,   \* class_writer.pool_end : the anchor after the constant pool
    build,      \* "debug" (overflow checks on) or "release" (wrapping)
    tsw,        \* the TableSwitchWriter { state, remaining } and whether it exists
    cw,         \* the CountedWriter { count_offset, class_writer, count } of type R
    lpe,        \* the LengthPrefixedEncoder { length_offset, length }
    ie,         \* the InsertingEncoder { cursor } borrowed from the VecEncoder
    re,         \* the ReplacingEncoder : where its slice of the buffer starts
    input,      \* the bytes handed to Decoder::new
    dec,        \* the Decoder { buf, file_position, ctx } of the caller
    sub,        \* a Decoder returned by limit
    dc,         \* a DecodeCounted { decoder, remaining }
    copy,       \* a DecodeCountedCopy { iter }
    its,        \* the DecodeCounted sequences handed out by copy.iter()
    lazy,       \* a LazyDecodeRef : NotRead, Read(value) or Error(err)
    cpool,      \* the entries of a ConstantPool, by index
    aw,         \* an AttributeWriter and its typestate
    seen,       \* history: what the calls made so far were given
    result      \* history: the last call, the state it was made in, what it returned

vars == <<buf, pool_end, build, tsw, cw, lpe, ie, re, input, dec, sub, dc,
          copy, its, lazy, cpool, aw, seen, result>>

otherVars == <<copy, its, lazy, cpool, aw>>

encoderVars == <<ie, re>>
readerVars == <<input, dec, sub, dc>>

(***************************************************************************)
(* Bounds of the model.                                                    *)
(***************************************************************************)
WordBits == 2       \* width given to i32 / u32
MaxOffset == 4      \* instructions already in the stream before the switch
MaxCode == 28       \* longest instruction stream explored

Pow2(n) == 2 ^ n
U32Max == Pow2(WordBits) - 1
I32Min == 0 - Pow2(WordBits - 1)
I32Max == Pow2(WordBits - 1) - 1
I32 == I32Min .. I32Max

LabelRefs == {1, 2}     \* LabelRef(u32) values handed to the writer

(***************************************************************************)
(* Integer conversions, as the casts of the code compute them.             *)
(***************************************************************************)
\* `x as u32`
as_u32(x) == x % Pow2(WordBits)

\* `x as i32`
as_i32(x) ==
    LET u == x % Pow2(WordBits)
    IN  IF u > I32Max THEN u - Pow2(WordBits) ELSE u

\* does an i32 operation with mathematical result x overflow?
overflows_i32(x) == x < I32Min \/ x > I32Max

\* to_be_bytes of a 1-, 2- or 4-byte integer given as its unsigned value
to_be_bytes(v, width) ==
    [i \in 1 .. width |-> (v \div (256 ^ (width - i))) % 256]

\* the unsigned value of big-endian bytes
RECURSIVE from_be_bytes(_)
from_be_bytes(bytes) ==
    IF bytes = <<>> THEN 0
    ELSE from_be_bytes(SubSeq(bytes, 1, Len(bytes) - 1)) * 256 + bytes[Len(bytes)]

\* the encoding of an i32 / u32 : its 4 big-endian bytes
encode_word(x) == to_be_bytes(as_u32(x), 4)

Zeros(n) == [i \in 1 .. n |-> 0]
Fill(b, n) == [i \in 1 .. n |-> b]

(***************************************************************************)
(* VecEncoder                                                              *)
(***************************************************************************)
\* VecEncoder::write_bytes : extend_from_slice
VecEncoder_write_bytes(b, bytes) == b \o bytes

\* VecEncoder::position
VecEncoder_position(b) == Len(b)

(***************************************************************************)
(* TableSwitchWriter                                                       *)
(***************************************************************************)
\* enum WriteState with its derived order
WriteState == <<"Default", "Low", "High", "Jumps", "Finished">>

Rank(s) == CHOOSE i \in 1 .. Len(WriteState) : WriteState[i] = s

\* EncodeError::result_from_state : Ok in the expected state, an error in
\* every other one; CantChangeAnymore once the expected state is behind.
result_from_state(state, expected) ==
    IF state = expected THEN "Ok"
    ELSE IF Rank(state) > Rank(expected) THEN "CantChangeAnymore"
    ELSE "ValuesMissing"

NoCall == [op |-> "none", arg |-> 0, pre |-> "none", res |-> "none"]
Call(op, arg, res) == [op |-> op, arg |-> arg, pre |-> tsw.state, res |-> res]

Running == result.res # "Panic"
CanGrow == Len(buf) + 4 <= MaxCode

\* a new with the padding of (offset & 3) instead of 3 - (offset & 3)
TableSwitchWriter_new_pad_mut(offset) ==
    /\ tsw.live = "unborn"
    /\ offset = Len(buf)
    /\ buf' = VecEncoder_write_bytes(buf, <<170>> \o Zeros(offset % 4))
    /\ tsw' = [live |-> "live", state |-> "Default", remaining |-> 0]
    /\ seen' = [seen EXCEPT !.offset = offset]
    /\ result' = [op |-> "new", arg |-> offset, pre |-> "none", res |-> "Ok"]
    /\ UNCHANGED <<otherVars, encoderVars, readerVars, pool_end, build, cw, lpe>>

TableSwitchWriter_new(offset) ==
    /\ tsw.live = "unborn"
    /\ offset = Len(buf)
    /\ buf' = VecEncoder_write_bytes(buf, <<170>> \o Zeros(3 - (offset % 4)))
    /\ tsw' = [live |-> "live", state |-> "Default", remaining |-> 0]
    /\ seen' = [seen EXCEPT !.offset = offset]
    /\ result' = [op |-> "new", arg |-> offset, pre |-> "none", res |-> "Ok"]
    /\ UNCHANGED <<otherVars, encoderVars, readerVars, pool_end, build, cw, lpe>>

\* a finish that also accepts the Jumps state
TableSwitchWriter_finish_mut ==
    /\ tsw.live = "live" /\ Running
    /\ LET r == IF tsw.state = "Jumps" THEN "Ok"
                ELSE result_from_state(tsw.state, "Finished")
       IN  result' = Call("finish", 0, r)
    /\ tsw' = [tsw EXCEPT !.live = "moved"]
    /\ UNCHANGED <<otherVars, encoderVars, readerVars, buf, pool_end, build, cw, lpe, seen>>

TableSwitchWriter_finish ==
    /\ tsw.live = "live" /\ Running
    /\ result' = Call("finish", 0, result_from_state(tsw.state, "Finished"))
    /\ tsw' = [tsw EXCEPT !.live = "moved"]
    /\ UNCHANGED <<otherVars, encoderVars, readerVars, buf, pool_end, build, cw, lpe, seen>>

\* a write_default that does not look at the state
TableSwitchWriter_write_default_mut(label) ==
    /\ tsw.live = "live" /\ Running /\ CanGrow
    /\ buf' = VecEncoder_write_bytes(buf, encode_word(label))
    /\ tsw' = [tsw EXCEPT !.state = "Low"]
    /\ seen' = [seen EXCEPT !.default = TRUE]
    /\ result' = Call("write_default", label, "Ok")
    /\ UNCHANGED <<otherVars, encoderVars, readerVars, pool_end, build, cw, lpe>>

TableSwitchWriter_write_default(label) ==
    /\ tsw.live = "live" /\ Running /\ CanGrow
    /\ LET r == result_from_state(tsw.state, "Default")
       IN  IF r # "Ok"
           THEN /\ result' = Call("write_default", label, r)
                /\ UNCHANGED <<buf, tsw, seen>>
           ELSE /\ buf' = VecEncoder_write_bytes(buf, encode_word(label))
                /\ tsw' = [tsw EXCEPT !.state = "Low"]
                /\ seen' = [seen EXCEPT !.default = TRUE]
                /\ result' = Call("write_default", label, "Ok")
    /\ UNCHANGED <<otherVars, encoderVars, readerVars, pool_end, build, cw, lpe>>

TableSwitchWriter_write_low(low) ==
    /\ tsw.live = "live" /\ Running /\ CanGrow
    /\ LET r == result_from_state(tsw.state, "Low")
       IN  IF r # "Ok"
           THEN /\ result' = Call("write_low", low, r)
                /\ UNCHANGED <<buf, tsw, seen>>
           ELSE /\ buf' = VecEncoder_write_bytes(buf, encode_word(low))
                /\ tsw' = [tsw EXCEPT !.remaining = as_u32(low), !.state = "High"]
                /\ seen' = [seen EXCEPT !.low = low]
                /\ result' = Call("write_low", low, "Ok")
    /\ UNCHANGED <<otherVars, encoderVars, readerVars, pool_end, build, cw, lpe>>

\* a write_high without the bounds check
TableSwitchWriter_write_high_mut(high) ==
    /\ tsw.live = "live" /\ Running /\ CanGrow
    /\ LET r == result_from_state(tsw.state, "High")
           low == as_i32(tsw.remaining)
       IN  IF r # "Ok"
           THEN /\ result' = Call("write_high", high, r)
                /\ UNCHANGED <<buf, tsw, seen>>
           ELSE /\ buf' = VecEncoder_write_bytes(buf, encode_word(high))
                /\ tsw' = [tsw EXCEPT !.remaining = as_u32(high - low + 1),
                                      !.state = "Jumps"]
                /\ seen' = [seen EXCEPT !.high = high, !.highOk = TRUE]
                /\ result' = Call("write_high", high, "Ok")
    /\ UNCHANGED <<otherVars, encoderVars, readerVars, pool_end, build, cw, lpe>>

\* high - low + 1 runs in i32: an overflow panics where overflow checks are
\* on and wraps where they are off.
TableSwitchWriter_write_high(high) ==
    /\ tsw.live = "live" /\ Running /\ CanGrow
    /\ LET r == result_from_state(tsw.state, "High")
           low == as_i32(tsw.remaining)
       IN  IF r # "Ok"
           THEN /\ result' = Call("write_high", high, r)
                /\ UNCHANGED <<buf, tsw, seen>>
           ELSE /\ buf' = VecEncoder_write_bytes(buf, encode_word(high))
                /\ IF low > high
                   THEN /\ result' = Call("write_high", high, "IncorrectBounds")
                        /\ UNCHANGED <<tsw, seen>>
                   ELSE IF build = "debug"
                           /\ (overflows_i32(high - low) \/ overflows_i32(high - low + 1))
                   THEN /\ result' = Call("write_high", high, "Panic")
                        /\ UNCHANGED <<tsw, seen>>
                   ELSE /\ tsw' = [tsw EXCEPT
                                     !.remaining = as_u32(as_i32(as_i32(high - low) + 1)),
                                     !.state = "Jumps"]
                        /\ seen' = [seen EXCEPT !.high = high, !.highOk = TRUE]
                        /\ result' = Call("write_high", high, "Ok")
    /\ UNCHANGED <<otherVars, encoderVars, readerVars, pool_end, build, cw, lpe>>

TableSwitchWriter_write_jump(label) ==
    /\ tsw.live = "live" /\ Running /\ CanGrow
    /\ LET r == result_from_state(tsw.state, "Jumps")
       IN  IF r # "Ok"
           THEN /\ result' = Call("write_jump", label, r)
                /\ UNCHANGED <<buf, tsw, seen>>
           ELSE /\ buf' = VecEncoder_write_bytes(buf, encode_word(label))
                /\ IF tsw.remaining = 0
                   THEN /\ result' = Call("write_jump", label, "CantChangeAnymore")
                        /\ UNCHANGED <<tsw, seen>>
                   ELSE /\ tsw' = [tsw EXCEPT
                                     !.state = IF tsw.remaining = 1 THEN "Finished" ELSE @,
                                     !.remaining = @ - 1]
                        /\ seen' = [seen EXCEPT !.jumps = @ + 1]
                        /\ result' = Call("write_jump", label, "Ok")
    /\ UNCHANGED <<otherVars, encoderVars, readerVars, pool_end, build, cw, lpe>>

(***************************************************************************)
(* The switch-table writer: properties                                     *)
(***************************************************************************)
\* the state each operation is valid in
OwnState(op) ==
    CASE op = "write_default" -> "Default"
      [] op = "write_low" -> "Low"
      [] op = "write_high" -> "High"
      [] op = "write_jump" -> "Jumps"
      [] op = "finish" -> "Finished"
      [] OTHER -> "none"

\* C1: the operations succeed only in the order Default -> Low -> High ->
\* Jumps -> Finished.  A call succeeds only in the state of its operation;
\* a successful write_default, write_low or write_high moves to the next
\* state (so it cannot succeed again, and no state is skipped or revisited),
\* a successful write_jump stays in Jumps or moves to Finished, and a call
\* that does not succeed leaves the state as it was.
C1_StrictOrder ==
    [][(tsw.live = "live" /\ result'.op # "none") =>
        LET op == result'.op
            ok == result'.res = "Ok"
        IN  /\ result'.pre = tsw.state
            /\ ok => tsw.state = OwnState(op)
            /\ tsw.state # OwnState(op) =>
                   result'.res \in {"CantChangeAnymore", "ValuesMissing"}
            /\ ~ok => tsw'.state = tsw.state
            /\ (ok /\ op \in {"write_default", "write_low", "write_high"}) =>
                   Rank(tsw'.state) = Rank(tsw.state) + 1
            /\ (ok /\ op = "write_jump") => tsw'.state \in {"Jumps", "Finished"}
            /\ (ok /\ op = "finish") => tsw'.state = tsw.state
      ]_vars

\* C1 witness: the whole protocol has run, with more than one jump label
C1_Witness ==
    /\ result.op = "finish" /\ result.res = "Ok"
    /\ seen.jumps >= 2

\* C2: write_high(high) in state High with low > high returns
\* IncorrectBounds and stays in High; the writer is in Jumps or Finished,
\* and a jump label has been accepted, only after a write_high with
\* low <= high succeeded.
C2_IncorrectBounds ==
    /\ (result.op = "write_high" /\ result.pre = "High" /\ seen.low > result.arg) =>
           (result.res = "IncorrectBounds" /\ tsw.state = "High")
    /\ tsw.state \in {"Jumps", "Finished"} => (seen.highOk /\ seen.low <= seen.high)
    /\ seen.jumps > 0 => (seen.highOk /\ seen.low <= seen.high)

\* C2 witness: a write_high was refused for its bounds before any jump label
C2_Witness ==
    /\ result.op = "write_high" /\ result.res = "IncorrectBounds"
    /\ seen.low > result.arg /\ seen.jumps = 0

\* C3 (as claimed): after a successful write_high exactly high - low + 1
\* write_jump calls succeed: the labels accepted and the labels still to
\* come add up to high - low + 1, the writer is Finished exactly when none
\* is left, and a write_jump on a Finished writer fails with
\* CantChangeAnymore.
C3_ExactlyRemainingJumps ==
    /\ tsw.state \in {"Jumps", "Finished"} =>
           seen.jumps + tsw.remaining = seen.high - seen.low + 1
    /\ tsw.state = "Jumps" => tsw.remaining > 0
    /\ tsw.state = "Finished" => tsw.remaining = 0
    /\ (result.op = "write_jump" /\ result.pre = "Finished") =>
           result.res = "CantChangeAnymore"

\* C4: finish succeeds if and only if the state is Finished, and the state
\* is Finished only after the default label, low, high and exactly
\* high - low + 1 jump labels have been written.
C4_FinishIffFinished ==
    /\ result.op = "finish" => (result.res = "Ok" <=> result.pre = "Finished")
    /\ tsw.state = "Finished" =>
           /\ seen.default /\ seen.highOk
           /\ seen.jumps = seen.high - seen.low + 1

\* C4 witness: finish succeeded after a table of two labels
C4_Witness ==
    /\ result.op = "finish" /\ result.res = "Ok"
    /\ seen.high - seen.low + 1 = 2

\* C5: new emits the opcode byte at offset o and then 3 - (o mod 4) zero
\* bytes, so the operands start at a multiple of 4.
C5_Padding ==
    tsw.live # "unborn" =>
        LET o == seen.offset
            start == o + 1 + (3 - (o % 4))
        IN  /\ Len(buf) >= start
            /\ SubSeq(buf, 1, start) = Fill(1, o) \o <<170>> \o Zeros(3 - (o % 4))
            /\ start % 4 = 0
            /\ result.op = "new" => Len(buf) = start

\* C5 witness: a switch whose opcode is at offset 2 has been started
C5_Witness ==
    /\ result.op = "new" /\ result.arg = 2
    /\ Len(buf) = 4

NoInsertingEncoder == [live |-> FALSE, cursor |-> 0]
NoReplacingEncoder == [live |-> FALSE, at |-> 0]
NoDecoder == [live |-> FALSE, buf |-> <<>>, file_position |-> 0, ctx |-> "None"]
NoDecodeCounted == [live |-> FALSE, decoder |-> NoDecoder, remaining |-> 0]

\* no encoder is borrowed from the buffer
IdleEncoders == ie = NoInsertingEncoder /\ re = NoReplacingEncoder

\* nothing is being decoded
IdleReader == input = <<>> /\ dec = NoDecoder /\ sub = NoDecoder /\ dc = NoDecodeCounted

NoCopy == [live |-> FALSE, iter |-> NoDecodeCounted]
NoLazy == [state |-> "NotRead"]
NoAttributeWriter == [live |-> "unborn", state |-> "Start"]

\* no copy, lazy reference, constant pool or attribute writer is in use
IdleOthers ==
    /\ copy = NoCopy /\ its = <<>> /\ lazy = NoLazy
    /\ cpool = <<>> /\ aw = NoAttributeWriter

NoTableSwitchWriter == [live |-> "unborn", state |-> "Default", remaining |-> 0]
NoCountedWriter == [live |-> "unborn", R |-> "u8", count_offset |-> 0,
                    class_writer |-> FALSE, count |-> 0]
NoLengthPrefixedEncoder == [live |-> "unborn", length_offset |-> 0, length |-> 0]

NoSeen == [offset |-> 0, default |-> FALSE, low |-> 0, high |-> 0,
           highOk |-> FALSE, jumps |-> 0]

Init ==
    /\ build \in {"debug", "release"}
    /\ \E o \in 0 .. MaxOffset : buf = Fill(1, o)
    /\ pool_end = 0
    /\ tsw = NoTableSwitchWriter
    /\ cw = NoCountedWriter
    /\ lpe = NoLengthPrefixedEncoder
    /\ IdleEncoders /\ IdleReader /\ IdleOthers
    /\ seen = NoSeen
    /\ result = NoCall

Next ==
    \/ \E offset \in 0 .. MaxOffset : TableSwitchWriter_new(offset)
    \/ \E label \in LabelRefs : TableSwitchWriter_write_default(label)
    \/ \E low \in I32 : TableSwitchWriter_write_low(low)
    \/ \E high \in I32 : TableSwitchWriter_write_high(high)
    \/ \E label \in LabelRefs : TableSwitchWriter_write_jump(label)
    \/ TableSwitchWriter_finish

Spec == Init /\ [][Next]_vars

(***************************************************************************)
(* ReplacingEncoder, Counter, CountedWriter                                *)
(***************************************************************************)
MaxPool == 1            \* bytes of the buffer before the pool-end anchor
MaxU16Items == 3        \* items explored with a u16 counter

CounterTypes == {"u8", "u16"}
ItemLens == {0, 1}      \* bytes one item emits
ItemFails == {"none", "new", "f", "finish"}  \* the step of an item that fails

\* size_of::<R>()
Width(R) == IF R = "u8" THEN 1 ELSE 2

\* R::max_value()
max_value(R) == (256 ^ Width(R)) - 1

\* an offset that is kept absolute instead of relative to the pool end
Offset_sub_mut(a, by) == a

\* Offset::sub and Offset::add
Offset_sub(a, by) == a - by
Offset_add(a, by) == a + by

\* VecEncoder::replacing(at) followed by ReplacingEncoder::write_bytes(bytes):
\* the slice buf[at..] must be longer than bytes, or the assertion panics;
\* bytes are copied over the front of the slice.
ReplacingEncoder_write_bytes(b, at, bytes) ==
    IF Len(bytes) < Len(b) - at
    THEN [res |-> "Ok",
          buf |-> SubSeq(b, 1, at) \o bytes \o SubSeq(b, at + Len(bytes) + 1, Len(b))]
    ELSE [res |-> "Panic", buf |-> b]

\* Vec::split_off panics when the cursor is past the end
InsertingEncoder_write_bytes_mut(b, cursor, bytes) ==
    IF cursor > Len(b)
    THEN [res |-> "Panic", buf |-> b, cursor |-> cursor]
    ELSE [res |-> "Ok",
          buf |-> SubSeq(b, 1, cursor) \o bytes
                      \o SubSeq(b, cursor + Len(bytes) + 1, Len(b)),
          cursor |-> cursor + Len(bytes)]

InsertingEncoder_write_bytes_end_mut(b, cursor, bytes) ==
    IF cursor > Len(b)
    THEN [res |-> "Panic", buf |-> b, cursor |-> cursor]
    ELSE [res |-> "Ok", buf |-> b \o bytes, cursor |-> cursor + Len(bytes)]

InsertingEncoder_write_bytes(b, cursor, bytes) ==
    IF cursor > Len(b)
    THEN [res |-> "Panic", buf |-> b, cursor |-> cursor]
    ELSE [res |-> "Ok",
          buf |-> SubSeq(b, 1, cursor) \o bytes \o SubSeq(b, cursor + 1, Len(b)),
          cursor |-> cursor + Len(bytes)]

\* the class writer adds a constant: its bytes are spliced in at the end of
\* the pool, which moves behind them
ClassWriter_insert_constant(b, pe, bytes) ==
    [buf |-> InsertingEncoder_write_bytes(b, pe, bytes).buf,
     pool_end |-> pe + Len(bytes)]

\* Counter::zero
Counter_zero == 0

\* a check that reports a full counter one item early
Counter_check_mut(c, R) ==
    IF c = max_value(R) - 1 THEN "TooManyItems" ELSE "Ok"

\* Counter::check
Counter_check(c, R) ==
    IF c = max_value(R) THEN "TooManyItems" ELSE "Ok"

\* Counter::increment : checked_add(1)
Counter_increment(c, R) ==
    IF c + 1 > max_value(R)
    THEN [res |-> "TooManyItems", count |-> c]
    ELSE [res |-> "Ok", count |-> c + 1]

\* a take that leaves the class writer in place
CountedWriter_take_mut(w) == w

\* self.class_writer.take() : what is left in the CountedWriter
CountedWriter_take(w) == [w EXCEPT !.class_writer = FALSE]

\* the count held by the placeholder in the buffer
Patched == from_be_bytes(SubSeq(buf, Offset_add(cw.count_offset, pool_end) + 1,
                                Offset_add(cw.count_offset, pool_end) + Width(cw.R)))

\* the bytes written after the placeholder
Items(b) == SubSeq(b, Offset_add(cw.count_offset, pool_end) + Width(cw.R) + 1, Len(b))

CWCall(op, arg, res) == [op |-> op, arg |-> arg, pre |-> cw, res |-> res]

CountedWriter_new(R) ==
    /\ cw.live = "unborn"
    /\ LET count_offset == Offset_sub(VecEncoder_position(buf), pool_end)
           count == Counter_zero
       IN  /\ buf' = VecEncoder_write_bytes(buf, to_be_bytes(count, Width(R)))
           /\ cw' = [live |-> "live", R |-> R, count_offset |-> count_offset,
                     class_writer |-> TRUE, count |-> count]
    /\ result' = CWCall("new", R, "Ok")
    /\ UNCHANGED <<otherVars, encoderVars, readerVars, pool_end, build, tsw, lpe, seen>>

\* write(f) with an item builder W that emits item.len bytes, adds a
\* constant of item.pool bytes to the pool and fails in step item.fails
\* (W::new, the closure f, W::finish) or in none.
CountedWriter_write(item) ==
    /\ cw.live = "live" /\ Running
    /\ cw.R = "u16" => cw.count < MaxU16Items
    /\ IF ~cw.class_writer
       THEN /\ result' = CWCall("write", item, "ErroredBefore")
            /\ UNCHANGED <<buf, pool_end, cw, seen>>
       ELSE
       LET taken == CountedWriter_take(cw)
           pooled == ClassWriter_insert_constant(buf, pool_end, Fill(171, item.pool))
           built == VecEncoder_write_bytes(pooled.buf, Fill(17, item.len))
           inc == Counter_increment(cw.count, cw.R)
           rep == ReplacingEncoder_write_bytes(
                      built, Offset_add(cw.count_offset, pooled.pool_end),
                      to_be_bytes(inc.count, Width(cw.R)))
       IN  IF Counter_check(cw.count, cw.R) # "Ok"
           THEN /\ result' = CWCall("write", item, Counter_check(cw.count, cw.R))
                /\ cw' = taken
                /\ UNCHANGED <<buf, pool_end, seen>>
           ELSE IF item.fails = "new"
           THEN /\ result' = CWCall("write", item, "ItemError")
                /\ cw' = taken
                /\ UNCHANGED <<buf, pool_end, seen>>
           ELSE IF item.fails # "none"
           THEN /\ result' = CWCall("write", item, "ItemError")
                /\ cw' = taken
                /\ buf' = built /\ pool_end' = pooled.pool_end
                /\ UNCHANGED seen
           ELSE IF inc.res # "Ok"
           THEN /\ result' = CWCall("write", item, inc.res)
                /\ cw' = taken
                /\ buf' = built /\ pool_end' = pooled.pool_end
                /\ seen' = [seen EXCEPT !.built = @ + 1]
           ELSE IF rep.res # "Ok"
           THEN /\ result' = CWCall("write", item, rep.res)
                /\ cw' = [taken EXCEPT !.count = inc.count]
                /\ buf' = built /\ pool_end' = pooled.pool_end
                /\ seen' = [seen EXCEPT !.built = @ + 1]
           ELSE /\ result' = CWCall("write", item, "Ok")
                /\ cw' = [taken EXCEPT !.count = inc.count, !.class_writer = TRUE]
                /\ buf' = rep.buf /\ pool_end' = pooled.pool_end
                /\ seen' = [seen EXCEPT !.built = @ + 1, !.written = @ + 1]
    /\ UNCHANGED <<otherVars, encoderVars, readerVars, build, tsw, lpe>>

InitCW ==
    /\ build = "release"
    /\ \E p \in 0 .. MaxPool : buf = Fill(192, p) /\ pool_end = p
    /\ tsw = NoTableSwitchWriter
    /\ cw = NoCountedWriter
    /\ lpe = NoLengthPrefixedEncoder
    /\ IdleEncoders /\ IdleReader /\ IdleOthers
    /\ seen = [built |-> 0, written |-> 0]
    /\ result = NoCall

NextCW ==
    \/ \E R \in CounterTypes : CountedWriter_new(R)
    \/ \E n \in ItemLens, f \in ItemFails :
           CountedWriter_write([len |-> n, pool |-> 0, fails |-> f])

SpecCW == InitCW /\ [][NextCW]_vars


(***************************************************************************)
(* CountedWriter: properties                                               *)
(***************************************************************************)
\* C6: a counter of type R accepts at most max(R) items (255 for u8): a
\* write fails with TooManyItems exactly when the count has reached
\* max(R), and the count patched into the buffer is then max(R).
C6_TooManyItems ==
    cw.live = "live" =>
        /\ cw.count <= max_value(cw.R)
        /\ seen.written <= max_value(cw.R)
        /\ max_value("u8") = 255
        /\ (result.op = "write" /\ result.pre.class_writer
                /\ result.pre.count = max_value(cw.R)) =>
               result.res = "TooManyItems"
        /\ result.res = "TooManyItems" =>
               /\ result.pre.count = max_value(cw.R)
               /\ seen.written = max_value(cw.R)
               /\ Patched = max_value(cw.R)

\* C6 witness: the 256th write on a u8 counter was refused, 255 patched
C6_Witness ==
    /\ cw.live = "live" /\ cw.R = "u8"
    /\ result.op = "write" /\ result.res = "TooManyItems"
    /\ seen.written = 255 /\ Patched = 255

\* C7 (as claimed): the placeholder holds the number of items written so
\* far: every write with a live writer, a counter below its maximum and an
\* item that succeeds returns Ok and leaves the placeholder one higher,
\* whatever number of bytes the item emitted.
C7_PatchedCount ==
    cw.live = "live" =>
        /\ Patched = seen.built
        /\ (result.op = "write" /\ result.pre.class_writer
                /\ result.pre.count < max_value(cw.R)
                /\ result.arg.fails = "none") =>
               (result.res = "Ok" /\ Patched = result.pre.count + 1)

\* C8: a write that fails leaves the CountedWriter without its class
\* writer; a write on such a CountedWriter returns ErroredBefore and changes
\* neither the buffer nor the writer (so it stays that way); and no write
\* changes the item bytes that were in the buffer before it.
C8_ErroredBefore ==
    [][(cw.live = "live" /\ result'.op = "write") =>
        /\ result'.res # "Ok" => ~cw'.class_writer
        /\ ~cw.class_writer =>
               (result'.res = "ErroredBefore" /\ buf' = buf /\ cw' = cw)
        /\ Len(Items(buf')) >= Len(Items(buf))
        /\ SubSeq(Items(buf'), 1, Len(Items(buf))) = Items(buf)
      ]_vars

\* C8 witness: a write was refused with ErroredBefore after an item failed
\* behind two written ones
C8_Witness ==
    /\ result.op = "write" /\ result.res = "ErroredBefore"
    /\ seen.written = 2 /\ cw.count = 2
    /\ Len(Items(buf)) >= 2

(***************************************************************************)
(* LengthPrefixedEncoder                                                   *)
(***************************************************************************)
MaxWrites == 3          \* write_bytes calls explored on one encoder

\* the slices handed to write_bytes: up to two bytes more than a u32 counts
Slices == {Fill(90, n) : n \in 0 .. U32Max + 2}

\* u32::checked_add
checked_add(a, b) ==
    IF a + b > U32Max THEN [some |-> FALSE, value |-> 0]
    ELSE [some |-> TRUE, value |-> a + b]

LPCall(op, arg, res) ==
    [op |-> op, arg |-> arg, pre |-> lpe, at |-> Len(buf),
     failed |-> seen.failed, res |-> res]

LengthPrefixedEncoder_new ==
    /\ lpe.live = "unborn"
    /\ LET length_offset == Offset_sub(VecEncoder_position(buf), pool_end)
       IN  /\ buf' = VecEncoder_write_bytes(buf, encode_word(0))
           /\ lpe' = [live |-> "live", length_offset |-> length_offset, length |-> 0]
    /\ seen' = [seen EXCEPT !.prefix = buf]
    /\ result' = LPCall("new", <<>>, "Ok")
    /\ UNCHANGED <<otherVars, encoderVars, readerVars, pool_end, build, tsw, cw>>

\* finish(self) : patch the placeholder through a ReplacingEncoder
LengthPrefixedEncoder_finish ==
    /\ lpe.live = "live" /\ Running
    /\ LET rep == ReplacingEncoder_write_bytes(
                      buf, Offset_add(lpe.length_offset, pool_end),
                      encode_word(lpe.length))
       IN  /\ buf' = rep.buf
           /\ result' = LPCall("finish", <<>>, rep.res)
    /\ lpe' = [lpe EXCEPT !.live = "moved"]
    /\ UNCHANGED <<otherVars, encoderVars, readerVars, pool_end, build, tsw, cw, seen>>

\* write_bytes : length.checked_add(bytes.len() as u32)
LengthPrefixedEncoder_write_bytes(bytes) ==
    /\ lpe.live = "live" /\ Running
    /\ seen.calls < MaxWrites
    /\ LET length == checked_add(lpe.length, as_u32(Len(bytes)))
       IN  IF length.some
           THEN /\ buf' = VecEncoder_write_bytes(buf, bytes)
                /\ lpe' = [lpe EXCEPT !.length = length.value]
                /\ seen' = [seen EXCEPT !.content = @ \o bytes, !.calls = @ + 1]
                /\ result' = LPCall("write_bytes", bytes, "Ok")
           ELSE /\ result' = LPCall("write_bytes", bytes, "TooManyBytes")
                /\ seen' = [seen EXCEPT !.failed = TRUE, !.calls = @ + 1]
                /\ UNCHANGED <<buf, lpe>>
    /\ UNCHANGED <<otherVars, encoderVars, readerVars, pool_end, build, tsw, cw>>

InitLP ==
    /\ build = "release"
    /\ \E p \in 0 .. MaxPool : buf = Fill(192, p) /\ pool_end = p
    /\ tsw = NoTableSwitchWriter
    /\ cw = NoCountedWriter
    /\ lpe = NoLengthPrefixedEncoder
    /\ IdleEncoders /\ IdleReader /\ IdleOthers
    /\ seen = [prefix |-> <<>>, content |-> <<>>, calls |-> 0, failed |-> FALSE]
    /\ result = NoCall

NextLP ==
    \/ LengthPrefixedEncoder_new
    \/ \E bytes \in Slices : LengthPrefixedEncoder_write_bytes(bytes)
    \/ LengthPrefixedEncoder_finish

SpecLP == InitLP /\ [][NextLP]_vars

(***************************************************************************)
(* LengthPrefixedEncoder: properties                                       *)
(***************************************************************************)
\* C9 (as claimed): after any sequence of successful write_bytes calls,
\* the empty one included, finish succeeds and the buffer is what it was
\* before new, then the 4 big-endian bytes of the number of bytes written,
\* then the bytes written.
C9_LengthPatched ==
    (result.op = "finish" /\ ~seen.failed) =>
        /\ result.res = "Ok"
        /\ buf = seen.prefix \o to_be_bytes(Len(seen.content), 4) \o seen.content

\* C10 (as claimed): a write_bytes whose bytes take the accumulated length
\* past the largest u32 fails with TooManyBytes, appends nothing and leaves
\* the accumulated length as it was.
C10_TooManyBytes ==
    (result.op = "write_bytes" /\ result.pre.length + Len(result.arg) > U32Max) =>
        /\ result.res = "TooManyBytes"
        /\ Len(buf) = result.at
        /\ lpe.length = result.pre.length

\* C11 (as claimed): once a write_bytes has failed with TooManyBytes, every
\* further write_bytes on the encoder fails with ErroredBefore, also one
\* whose bytes fit.
C11_UnusableAfterTooManyBytes ==
    (result.op = "write_bytes" /\ result.failed) => result.res = "ErroredBefore"

(***************************************************************************)
(* VecEncoder with its two borrowed encoders: InsertingEncoder splices     *)
(* bytes in at a cursor, ReplacingEncoder overwrites bytes of a slice.     *)
(* Both borrow the buffer mutably, so at most one of them is alive and the *)
(* VecEncoder itself is written only while none is.                        *)
(***************************************************************************)
MaxPrefix == 2
MaxCalls == 6

\* the buffers the VecEncoder starts with, every byte different
Prefixes == {[i \in 1 .. n |-> 192 + i] : n \in 0 .. MaxPrefix}

\* the slices handed to write_bytes
Chunks == {<<>>, <<10>>, <<20>>, <<30, 31>>}

VECall(op, arg, at, res) ==
    [op |-> op, arg |-> arg, buf0 |-> buf, at |-> at, res |-> res]

\* the steps of the scenario "write A at the end, reserve an anchor, insert B
\* at the anchor, insert C at an earlier position", as far as the calls so
\* far follow it
Scenario(op, arg) ==
    LET st == seen.stage
        on == [seen EXCEPT !.calls = @ + 1]
    IN  CASE st = "start" /\ op = "write" -> [on EXCEPT !.stage = "A", !.A = arg]
          [] st = "A" /\ op = "inserting" -> [on EXCEPT !.stage = "anchor", !.anchor = arg]
          [] st = "anchor" /\ op = "insert" -> [on EXCEPT !.stage = "B", !.B = arg]
          [] st = "B" /\ op = "drop" -> on
          [] st = "B" /\ op = "inserting" /\ arg < seen.anchor ->
                [on EXCEPT !.stage = "earlier", !.q = arg]
          [] st = "earlier" /\ op = "insert" -> [on EXCEPT !.stage = "C", !.C = arg]
          [] OTHER -> [on EXCEPT !.stage = "off"]

Borrowed == ie.live \/ re.live

\* <VecEncoder as Encoder>::write_bytes
VecEncoder_write(bytes) ==
    /\ Running /\ ~Borrowed /\ seen.calls < MaxCalls
    /\ buf' = VecEncoder_write_bytes(buf, bytes)
    /\ seen' = Scenario("write", bytes)
    /\ result' = VECall("write", bytes, Len(buf), "Ok")
    /\ UNCHANGED <<otherVars, readerVars, pool_end, build, tsw, cw, lpe, ie, re>>

\* VecEncoder::inserting
VecEncoder_inserting(at) ==
    /\ Running /\ ~Borrowed /\ seen.calls < MaxCalls
    /\ ie' = [live |-> TRUE, cursor |-> at]
    /\ seen' = Scenario("inserting", at)
    /\ result' = VECall("inserting", <<>>, at, "Ok")
    /\ UNCHANGED <<otherVars, readerVars, buf, pool_end, build, tsw, cw, lpe, re>>

\* <InsertingEncoder as Encoder>::write_bytes
InsertingEncoder_write(bytes) ==
    /\ Running /\ ie.live /\ seen.calls < MaxCalls
    /\ LET r == InsertingEncoder_write_bytes(buf, ie.cursor, bytes)
       IN  /\ buf' = r.buf
           /\ ie' = [ie EXCEPT !.cursor = r.cursor]
           /\ result' = VECall("insert", bytes, ie.cursor, r.res)
    /\ seen' = Scenario("insert", bytes)
    /\ UNCHANGED <<otherVars, readerVars, pool_end, build, tsw, cw, lpe, re>>

\* VecEncoder::replacing: the slice buf[at..] panics when at is past the end
VecEncoder_replacing(at) ==
    /\ Running /\ ~Borrowed /\ seen.calls < MaxCalls
    /\ IF at > Len(buf)
       THEN /\ result' = VECall("replacing", <<>>, at, "Panic")
            /\ UNCHANGED re
       ELSE /\ result' = VECall("replacing", <<>>, at, "Ok")
            /\ re' = [live |-> TRUE, at |-> at]
    /\ seen' = Scenario("replacing", at)
    /\ UNCHANGED <<otherVars, readerVars, buf, pool_end, build, tsw, cw, lpe, ie>>

\* <ReplacingEncoder as Encoder>::write_bytes: the encoder keeps the rest of
\* its slice, which starts behind the bytes just replaced
ReplacingEncoder_write(bytes) ==
    /\ Running /\ re.live /\ seen.calls < MaxCalls
    /\ LET r == ReplacingEncoder_write_bytes(buf, re.at, bytes)
       IN  /\ buf' = r.buf
           /\ re' = IF r.res = "Ok" THEN [re EXCEPT !.at = @ + Len(bytes)] ELSE re
           /\ result' = VECall("replace", bytes, re.at, r.res)
    /\ seen' = Scenario("replace", bytes)
    /\ UNCHANGED <<otherVars, readerVars, pool_end, build, tsw, cw, lpe, ie>>

\* the borrowed encoder goes out of scope
Encoder_drop ==
    /\ Running /\ Borrowed
    /\ ie' = NoInsertingEncoder /\ re' = NoReplacingEncoder
    /\ seen' = Scenario("drop", <<>>)
    /\ result' = VECall("drop", <<>>, 0, "Ok")
    /\ UNCHANGED <<otherVars, readerVars, buf, pool_end, build, tsw, cw, lpe>>

InitVE ==
    /\ buf \in Prefixes
    /\ pool_end = 0
    /\ build = "release"
    /\ tsw = NoTableSwitchWriter
    /\ cw = NoCountedWriter
    /\ lpe = NoLengthPrefixedEncoder
    /\ IdleEncoders /\ IdleReader /\ IdleOthers
    /\ seen = [stage |-> "start", calls |-> 0, prefix |-> buf, A |-> <<>>,
               anchor |-> 0, B |-> <<>>, q |-> 0, C |-> <<>>]
    /\ result = VECall("none", <<>>, 0, "none")

NextVE ==
    \/ \E bytes \in Chunks : VecEncoder_write(bytes)
    \/ \E at \in 0 .. Len(buf) + 1 : VecEncoder_inserting(at)
    \/ \E bytes \in Chunks : InsertingEncoder_write(bytes)
    \/ \E at \in 0 .. Len(buf) + 1 : VecEncoder_replacing(at)
    \/ \E bytes \in Chunks : ReplacingEncoder_write(bytes)
    \/ Encoder_drop

SpecVE == InitVE /\ [][NextVE]_vars

\* C12: InsertingEncoder::write_bytes(B) at a cursor c <= |S| of the buffer S
\* succeeds and leaves S[0..c] ++ B ++ S[c..]: the bytes before the cursor
\* are unchanged, the bytes from it on are shifted by |B|, the buffer grows
\* by |B|, and the cursor becomes c + |B|.
C12_SpliceInsert ==
    (result.op = "insert" /\ result.at <= Len(result.buf0)) =>
        LET S == result.buf0
            c == result.at
            B == result.arg
        IN  /\ result.res = "Ok"
            /\ buf = SubSeq(S, 1, c) \o B \o SubSeq(S, c + 1, Len(S))
            /\ Len(buf) = Len(S) + Len(B)
            /\ \A i \in 1 .. c : buf[i] = S[i]
            /\ \A i \in c + 1 .. Len(S) : buf[i + Len(B)] = S[i]
            /\ ie.cursor = c + Len(B)

\* an insertion strictly inside the buffer, right behind a byte 10 and in
\* front of the rest
C12_Witness ==
    /\ result.op = "insert" /\ result.res = "Ok"
    /\ result.arg = <<20>>
    /\ 1 < result.at /\ result.at < Len(result.buf0)
    /\ result.buf0[result.at] = 10
    /\ ie.cursor = result.at + 1

\* C13 (as claimed): after writing A at the end, reserving an anchor,
\* inserting B at the anchor and inserting C at a position earlier than the
\* anchor, the buffer is C, the original prefix, B, A.
C13_OrderAsClaimed ==
    seen.stage = "C" => buf = seen.C \o seen.prefix \o seen.B \o seen.A

\* C13 (amended): with S the buffer after A was appended to the original
\* prefix, a the anchor and q < a the earlier position, the buffer ends as
\* S[0..q] ++ C ++ S[q..a] ++ B ++ S[a..], each written byte once; that is
\* C, prefix, B, A when the anchor is the end of the prefix and q = 0.
C13_SplicedScenario ==
    seen.stage = "C" =>
        LET S == seen.prefix \o seen.A
            a == seen.anchor
            q == seen.q
        IN  /\ buf = SubSeq(S, 1, q) \o seen.C \o SubSeq(S, q + 1, a)
                        \o seen.B \o SubSeq(S, a + 1, Len(S))
            /\ Len(buf) = Len(seen.prefix) + Len(seen.A) + Len(seen.B) + Len(seen.C)
            /\ ((a = Len(seen.prefix) /\ q = 0) =>
                    buf = seen.C \o seen.prefix \o seen.B \o seen.A)

\* the scenario ran with four different non-empty pieces, the anchor at the
\* end of the prefix and C at the front
C13_Witness ==
    /\ seen.stage = "C"
    /\ seen.prefix = <<193, 194>> /\ seen.A = <<10>>
    /\ seen.B = <<30, 31>> /\ seen.C = <<20>>
    /\ seen.anchor = 2 /\ seen.q = 0
    /\ buf = <<20, 193, 194, 30, 31, 10>>

\* C15 (as claimed): a replacing write of k bytes at offset at succeeds
\* whenever at + k <= buffer length, the placeholder being the last k bytes
\* included; it overwrites exactly [at, at + k) and leaves the length and
\* every other byte unchanged.
C15_ReplaceInBounds ==
    (result.op = "replace" /\ result.at + Len(result.arg) <= Len(result.buf0)) =>
        LET S == result.buf0
            at == result.at
            k == Len(result.arg)
        IN  /\ result.res = "Ok"
            /\ Len(buf) = Len(S)
            /\ \A i \in 1 .. Len(S) :
                  buf[i] = IF at < i /\ i <= at + k THEN result.arg[i - at] ELSE S[i]

(***************************************************************************)
(* Placeholders and the constant pool.  A CountedWriter or a               *)
(* LengthPrefixedEncoder reserves its placeholder behind the pool; while   *)
(* it is alive constants are added to the pool (by the item builders of    *)
(* the CountedWriter, through class_writer() of the LengthPrefixedEncoder) *)
(* and bytes are appended.                                                 *)
(***************************************************************************)
MaxConstants == 2

PoolLens == {0, 1}

\* the constants added through LengthPrefixedEncoder::class_writer
Constants == {Fill(171, n) : n \in 1 .. 2}

\* LengthPrefixedEncoder::class_writer, used to add a constant to the pool
LengthPrefixedEncoder_class_writer(bytes) ==
    /\ lpe.live = "live" /\ Running
    /\ pool_end - Len(seen.head) + Len(bytes) <= MaxConstants
    /\ LET r == ClassWriter_insert_constant(buf, pool_end, bytes)
       IN  buf' = r.buf /\ pool_end' = r.pool_end
    /\ result' = LPCall("class_writer", bytes, "Ok")
    /\ UNCHANGED <<otherVars, encoderVars, readerVars, build, tsw, cw, lpe, seen>>

InitPool ==
    /\ build = "release"
    /\ \E p \in 0 .. MaxPool, t \in 0 .. MaxPool :
           /\ buf = Fill(192, p) \o Fill(208, t)
           /\ pool_end = p
           /\ seen = [built |-> 0, written |-> 0, prefix |-> <<>>, content |-> <<>>,
                      calls |-> 0, failed |-> FALSE,
                      head |-> Fill(192, p), mid |-> Fill(208, t)]
    /\ tsw = NoTableSwitchWriter
    /\ cw = NoCountedWriter
    /\ lpe = NoLengthPrefixedEncoder
    /\ IdleEncoders /\ IdleReader /\ IdleOthers
    /\ result = NoCall

NextPool ==
    \/ lpe.live = "unborn" /\ CountedWriter_new("u16")
    \/ \E n \in ItemLens, c \in PoolLens, f \in ItemFails :
           /\ pool_end - Len(seen.head) + c <= MaxConstants
           /\ CountedWriter_write([len |-> n, pool |-> c, fails |-> f])
    \/ cw.live = "unborn" /\ LengthPrefixedEncoder_new
    \/ \E bytes \in Slices : LengthPrefixedEncoder_write_bytes(bytes)
    \/ \E bytes \in Constants : LengthPrefixedEncoder_class_writer(bytes)
    \/ LengthPrefixedEncoder_finish

SpecPool == InitPool /\ [][NextPool]_vars

\* the buffer up to the placeholder: what was there first, with the added
\* constants at the end of the pool
PoolAndBefore ==
    seen.head \o Fill(171, pool_end - Len(seen.head)) \o seen.mid

\* C14: the placeholder is recorded relative to the pool end, so after any
\* interleaving of constants inserted at the pool end and of appended
\* writes, a patch overwrites exactly the placeholder bytes: the buffer is
\* always the bytes before the placeholder (shifted by the constants), the
\* placeholder with the last patched value, and the appended bytes.
C14_PatchHitsPlaceholder ==
    /\ cw.live = "live" =>
           LET ph == to_be_bytes(seen.written, Width(cw.R))
               at == Len(PoolAndBefore)
           IN  /\ Offset_add(cw.count_offset, pool_end) = at
               /\ buf = PoolAndBefore \o ph
                            \o Fill(17, Len(buf) - at - Width(cw.R))
    /\ lpe.live # "unborn" =>
           LET ph == IF lpe.live = "moved" /\ result.res = "Ok"
                     THEN encode_word(lpe.length) ELSE encode_word(0)
           IN  /\ Offset_add(lpe.length_offset, pool_end) = Len(PoolAndBefore)
               /\ buf = PoolAndBefore \o ph \o seen.content

\* constants were added while items were written, and the second patch hit
\* the placeholder between the bytes before it and the items
C14_Witness ==
    /\ cw.live = "live" /\ result.op = "write" /\ result.res = "Ok"
    /\ seen.written = 2
    /\ buf = <<192, 171, 171, 208, 0, 2, 17, 17>>

(***************************************************************************)
(* Decoder: a view of the input that is still to be read, the position of  *)
(* that view in the file, and a context.  A Decoder is the record          *)
(* [live, buf, file_position, ctx]; every operation is an operator from    *)
(* the decoder to [res, decoder, value, err].                              *)
(***************************************************************************)
MaxInput == 4

Contexts == {"Start", "ConstantPool"}

\* primitive types of impl_decode!, with the length of their encoding
Primitives == {"u8", "u16", "u32"}
PrimitiveLen(T) == CASE T = "u8" -> 1 [] T = "u16" -> 2 [] T = "u32" -> 4

NoError == [kind |-> "none", position |-> 0, context |-> "None"]

\* DecodeError::with_info
DecodeError_with_info(kind, position, context) ==
    [kind |-> kind, position |-> position, context |-> context]

\* Decoder::new
Decoder_new(b, ctx) ==
    [live |-> TRUE, buf |-> b, file_position |-> 0, ctx |-> ctx]

Decoder_bytes_remaining(d) == Len(d.buf)

UnexpectedEoi(d) ==
    [res |-> "UnexpectedEoi", decoder |-> d, value |-> <<>>,
     err |-> DecodeError_with_info("UnexpectedEoi", d.file_position, d.ctx)]

\* the decoder with its first count bytes consumed
Consumed(d, count) ==
    [d EXCEPT !.buf = SubSeq(d.buf, count + 1, Len(d.buf)),
              !.file_position = @ + count]

\* a limit that keeps the whole view of the parent
Decoder_limit_mut(d, count, ctx) ==
    IF count > Len(d.buf)
    THEN UnexpectedEoi(d)
    ELSE [res |-> "Ok", decoder |-> d, err |-> NoError,
          value |-> [live |-> TRUE, buf |-> d.buf,
                     file_position |-> d.file_position, ctx |-> ctx]]

\* Decoder::limit : value is the new decoder, self is not changed
Decoder_limit(d, count, ctx) ==
    IF count > Len(d.buf)
    THEN UnexpectedEoi(d)
    ELSE [res |-> "Ok", decoder |-> d, err |-> NoError,
          value |-> [live |-> TRUE, buf |-> SubSeq(d.buf, 1, count),
                     file_position |-> d.file_position, ctx |-> ctx]]

\* Decoder::with_context
Decoder_with_context(d, ctx) == [d EXCEPT !.ctx = ctx]

\* an advance that refuses to consume the last byte
Decoder_advance_mut(d, count) ==
    IF count >= Len(d.buf) /\ count > 0
    THEN UnexpectedEoi(d)
    ELSE [res |-> "Ok", decoder |-> Consumed(d, count), value |-> <<>>, err |-> NoError]

\* Decoder::advance
Decoder_advance(d, count) ==
    IF count > Len(d.buf)
    THEN UnexpectedEoi(d)
    ELSE [res |-> "Ok", decoder |-> Consumed(d, count), value |-> <<>>, err |-> NoError]

\* a read_bytes that copies the bytes and leaves the position where it was
Decoder_read_bytes_mut(d, len) ==
    IF len > Len(d.buf)
    THEN UnexpectedEoi(d)
    ELSE [res |-> "Ok", err |-> NoError, value |-> SubSeq(d.buf, 1, len),
          decoder |-> [d EXCEPT !.buf = SubSeq(d.buf, len + 1, Len(d.buf))]]

\* Decoder::read_bytes into a buffer of len bytes
Decoder_read_bytes(d, len) ==
    IF len > Len(d.buf)
    THEN UnexpectedEoi(d)
    ELSE [res |-> "Ok", decoder |-> Consumed(d, len),
          value |-> SubSeq(d.buf, 1, len), err |-> NoError]

\* Decoder::split_bytes_off
Decoder_split_bytes_off(d, count) ==
    IF count > Len(d.buf)
    THEN UnexpectedEoi(d)
    ELSE [res |-> "Ok", decoder |-> Consumed(d, count),
          value |-> SubSeq(d.buf, 1, count), err |-> NoError]

\* Decoder::read::<T> for a primitive T : read_bytes, then T::from_be_bytes
Decoder_read(d, T) ==
    LET r == Decoder_read_bytes(d, PrimitiveLen(T))
    IN  IF r.res = "Ok" THEN [r EXCEPT !.value = from_be_bytes(r.value)] ELSE r

\* the inputs handed to Decoder::new, every byte different
Inputs == {[i \in 1 .. n |-> 16 + i] : n \in 0 .. MaxInput}

\* the two cursors of the model: the caller's decoder and its sub-decoder
Target(t) == IF t = "dec" THEN dec ELSE sub

Put(t, d) ==
    /\ dec' = IF t = "dec" THEN d ELSE dec
    /\ sub' = IF t = "sub" THEN d ELSE sub

DecCall(op, on, arg, r) ==
    [op |-> op, on |-> on, arg |-> arg, dec0 |-> dec, sub0 |-> sub,
     res |-> r.res, err |-> r.err, value |-> r.value]

NoDecoderCall ==
    [op |-> "none", on |-> "dec", arg |-> 0, dec0 |-> dec, sub0 |-> sub,
     res |-> "none", err |-> NoError, value |-> <<>>]

\* decoder.advance(n)
Advance(t, n) ==
    /\ Target(t).live
    /\ LET r == Decoder_advance(Target(t), n)
       IN  Put(t, r.decoder) /\ result' = DecCall("advance", t, n, r)
    /\ UNCHANGED <<otherVars, encoderVars, buf, pool_end, build, tsw, cw, lpe, input, dc, seen>>

\* decoder.read_bytes(&mut [0; n])
ReadBytes(t, n) ==
    /\ Target(t).live
    /\ LET r == Decoder_read_bytes(Target(t), n)
       IN  Put(t, r.decoder) /\ result' = DecCall("read_bytes", t, n, r)
    /\ UNCHANGED <<otherVars, encoderVars, buf, pool_end, build, tsw, cw, lpe, input, dc, seen>>

\* decoder.split_bytes_off(n)
SplitBytesOff(t, n) ==
    /\ Target(t).live
    /\ LET r == Decoder_split_bytes_off(Target(t), n)
       IN  Put(t, r.decoder) /\ result' = DecCall("split_bytes_off", t, n, r)
    /\ UNCHANGED <<otherVars, encoderVars, buf, pool_end, build, tsw, cw, lpe, input, dc, seen>>

\* decoder.read::<T>() for a primitive T
Read(t, T) ==
    /\ Target(t).live
    /\ LET r == Decoder_read(Target(t), T)
       IN  Put(t, r.decoder) /\ result' = DecCall("read", t, PrimitiveLen(T), r)
    /\ UNCHANGED <<otherVars, encoderVars, buf, pool_end, build, tsw, cw, lpe, input, dc, seen>>

\* decoder.set_context(ctx)
SetContext(t, ctx) ==
    /\ Target(t).live
    /\ Put(t, [Target(t) EXCEPT !.ctx = ctx])
    /\ result' = DecCall("set_context", t, 0,
                         [res |-> "Ok", err |-> NoError, value |-> <<>>])
    /\ UNCHANGED <<otherVars, encoderVars, buf, pool_end, build, tsw, cw, lpe, input, dc, seen>>

\* let sub = decoder.limit(n, ctx)? : on success the caller holds the
\* sub-decoder, whose first byte is at seen.start and whose bound is n bytes
\* further
Limit(n, ctx) ==
    /\ dec.live
    /\ LET r == Decoder_limit(dec, n, ctx)
       IN  /\ dec' = r.decoder
           /\ result' = DecCall("limit", "dec", n, [r EXCEPT !.value = ctx])
           /\ IF r.res = "Ok"
              THEN /\ sub' = r.value
                   /\ seen' = [start |-> dec.file_position, bound |-> n]
              ELSE UNCHANGED <<sub, seen>>
    /\ UNCHANGED <<otherVars, encoderVars, buf, pool_end, build, tsw, cw, lpe, input, dc>>

InitDec ==
    /\ buf = <<>> /\ pool_end = 0 /\ build = "release"
    /\ tsw = NoTableSwitchWriter
    /\ cw = NoCountedWriter
    /\ lpe = NoLengthPrefixedEncoder
    /\ IdleEncoders /\ IdleOthers
    /\ input \in Inputs
    /\ \E ctx \in Contexts : dec = Decoder_new(input, ctx)
    /\ sub = NoDecoder
    /\ dc = NoDecodeCounted
    /\ seen = [start |-> 0, bound |-> 0]
    /\ result = NoDecoderCall

NextDec ==
    \/ \E t \in {"dec", "sub"}, n \in 0 .. MaxInput + 1 : Advance(t, n)
    \/ \E t \in {"dec", "sub"}, n \in 0 .. MaxInput + 1 : ReadBytes(t, n)
    \/ \E t \in {"dec", "sub"}, n \in 0 .. MaxInput + 1 : SplitBytesOff(t, n)
    \/ \E t \in {"dec", "sub"}, T \in Primitives : Read(t, T)
    \/ \E t \in {"dec", "sub"}, ctx \in Contexts : SetContext(t, ctx)
    \/ \E n \in 0 .. MaxInput + 1, ctx \in Contexts : Limit(n, ctx)

SpecDec == InitDec /\ [][NextDec]_vars

(***************************************************************************)
(* Decoder: properties                                                     *)
(***************************************************************************)
\* the decoder the last call was made on, before and after the call
Before == IF result.on = "dec" THEN result.dec0 ELSE result.sub0
After == Target(result.on)

Consuming == {"advance", "read_bytes", "split_bytes_off", "read"}

\* C16 (as claimed): for every Decoder, after any sequence of advance,
\* read_bytes, split_bytes_off and primitive reads, file_position +
\* bytes_remaining is the length of the original input buffer (for a
\* decoder made by limit: of the input, or of the n bytes it was made over),
\* and a successful operation consuming n bytes adds n to file_position and
\* removes the first n bytes of the view.
C16_PositionPlusRemaining ==
    /\ dec.file_position + Decoder_bytes_remaining(dec) = Len(input)
    /\ sub.live =>
           sub.file_position + Decoder_bytes_remaining(sub) \in {Len(input), seen.bound}
    /\ (result.op \in Consuming /\ result.res = "Ok") =>
           /\ After.file_position = Before.file_position + result.arg
           /\ After.buf = SubSeq(Before.buf, result.arg + 1, Len(Before.buf))

\* C16 (amended): file_position + bytes_remaining is the length of the input
\* for a decoder made by Decoder::new, and the position of the bound (the
\* parent's position at the limit call plus n) for a decoder made by
\* limit(n, ctx); the view is always the input from file_position to that
\* end, and a successful operation consuming n bytes adds n to file_position
\* and removes the first n bytes of the view.
C16_PositionAccounting ==
    /\ dec.file_position + Decoder_bytes_remaining(dec) = Len(input)
    /\ dec.buf = SubSeq(input, dec.file_position + 1, Len(input))
    /\ sub.live =>
           /\ sub.file_position + Decoder_bytes_remaining(sub) = seen.start + seen.bound
           /\ sub.buf = SubSeq(input, sub.file_position + 1, seen.start + seen.bound)
    /\ (result.op \in Consuming /\ result.res = "Ok") =>
           /\ After.file_position = Before.file_position + result.arg
           /\ After.buf = SubSeq(Before.buf, result.arg + 1, Len(Before.buf))

\* a sub-decoder bounded before the end of the input has just consumed a
\* byte, after its parent had consumed one
C16_Witness ==
    /\ sub.live /\ seen.start = 1 /\ seen.bound = 2 /\ Len(input) = 4
    /\ result.op = "read" /\ result.on = "sub" /\ result.res = "Ok"
    /\ result.arg = 1 /\ sub.file_position = 2
    /\ dec.file_position = 1

\* C17: advance(n), read_bytes(n), split_bytes_off(n), limit(n, ctx) and a
\* primitive read of width n fail with UnexpectedEoi exactly when n exceeds
\* the remaining bytes; the error carries the decoder's absolute file
\* position and its context at the time of the call, and the failing call
\* leaves position, view and context unchanged.
C17_UnexpectedEoi ==
    (result.op \in Consuming \cup {"limit"}) =>
        /\ result.res \in {"Ok", "UnexpectedEoi"}
        /\ result.res = "UnexpectedEoi" <=> result.arg > Decoder_bytes_remaining(Before)
        /\ result.res = "UnexpectedEoi" =>
               /\ result.err = [kind |-> "UnexpectedEoi",
                                position |-> Before.file_position,
                                context |-> Before.ctx]
               /\ After = Before
               /\ dec = result.dec0 /\ sub = result.sub0

\* a 2-byte read with one byte left fails at position 3 in the context set
\* before the call
C17_Witness ==
    /\ result.op = "read" /\ result.on = "dec" /\ result.arg = 2
    /\ result.res = "UnexpectedEoi"
    /\ Len(input) = 4 /\ dec.file_position = 3 /\ dec.buf = <<20>>
    /\ dec.ctx = "ConstantPool"
    /\ result.err.position = 3 /\ result.err.context = "ConstantPool"

\* C19: a sub-decoder made by limit(n, ctx) starts at the parent's file
\* position with exactly n remaining bytes and the context ctx; whatever is
\* done with it, it never consumes a byte at an absolute position >= start
\* + n (a read past the bound fails with UnexpectedEoi); making it and
\* using it never changes the parent.
C19_BoundedSubDecoder ==
    /\ (result.op = "limit" /\ result.res = "Ok") =>
           /\ sub.file_position = dec.file_position
           /\ seen.start = dec.file_position /\ seen.bound = result.arg
           /\ Decoder_bytes_remaining(sub) = result.arg
           /\ sub.buf = SubSeq(dec.buf, 1, result.arg)
           /\ sub.ctx = result.value
    /\ sub.live =>
           /\ seen.start <= sub.file_position
           /\ sub.file_position <= seen.start + seen.bound
           /\ sub.buf = SubSeq(input, sub.file_position + 1, seen.start + seen.bound)
    /\ (result.on = "sub" /\ result.op \in Consuming
            /\ Before.file_position + result.arg > seen.start + seen.bound) =>
           result.res = "UnexpectedEoi" /\ sub = result.sub0
    /\ (result.op = "limit" \/ result.on = "sub") => dec = result.dec0

\* the parent still has two bytes behind the bound of its sub-decoder, which
\* has consumed its only byte and has just been refused a second one
C19_Witness ==
    /\ sub.live /\ seen.start = 1 /\ seen.bound = 1 /\ Len(input) = 4
    /\ dec.file_position = 1 /\ sub.file_position = 2 /\ sub.buf = <<>>
    /\ result.on = "sub" /\ result.op = "advance" /\ result.arg = 1
    /\ result.res = "UnexpectedEoi"

(***************************************************************************)
(* Multi-step decodes on the caller's decoder: DecodeCounted, Field and    *)
(* Fields.  Each is an operator from the caller's decoder d to             *)
(* [res, decoder, value, err], decoder being the caller's decoder when the *)
(* call returns.                                                           *)
(***************************************************************************)
MaxCount == 3
MaxNones == 2

\* a countdown that stops one item early
Countdown_decrement_mut(c) ==
    IF c > 1
    THEN [state |-> "Continue", value |-> c - 1]
    ELSE [state |-> "Break", value |-> 0]

\* Countdown::decrement for u8 and u16 : checked_sub(1)
Countdown_decrement(c) ==
    IF c >= 1
    THEN [state |-> "Continue", value |-> c - 1]
    ELSE [state |-> "Break", value |-> c]

Done(d) == [res |-> "Ok", decoder |-> d, value |-> <<>>, err |-> NoError]

\* while let Continue = remaining.decrement() { decoder.read::<T>()?; }
RECURSIVE ReadItems(_, _, _)
ReadItems(d, remaining, T) ==
    LET c == Countdown_decrement(remaining)
        r == Decoder_read(d, T)
    IN  IF c.state = "Break" THEN Done(d)
        ELSE IF r.res # "Ok" THEN r
        ELSE ReadItems(r.decoder, c.value, T)

\* DecodeCounted::new
DecodeCounted_new(d, count) ==
    [live |-> TRUE, decoder |-> d, remaining |-> count]

\* a decode that reads the items on a clone and gives the caller's decoder
\* back as it was when an item fails
DecodeCounted_decode_mut(d, Count, T) ==
    LET count == Decoder_read(d, Count)
        old_decoder == count.decoder
        items == ReadItems(count.decoder, count.value, T)
    IN  IF count.res # "Ok" THEN count
        ELSE IF items.res # "Ok" THEN [items EXCEPT !.decoder = d]
        ELSE [items EXCEPT !.value = DecodeCounted_new(old_decoder, count.value)]

\* <DecodeCounted as Decode>::decode : the count and the items are read on
\* the caller's decoder, the clone taken behind the count goes into the
\* result
DecodeCounted_decode(d, Count, T) ==
    LET count == Decoder_read(d, Count)
        old_decoder == count.decoder
        items == ReadItems(count.decoder, count.value, T)
    IN  IF count.res # "Ok" THEN count
        ELSE IF items.res # "Ok" THEN items
        ELSE [items EXCEPT !.value = DecodeCounted_new(old_decoder, count.value)]

\* <DecodeCounted as DecodeInto>::decode_into : the decoder is moved in
DecodeCounted_decode_into(d, Count) ==
    LET remaining == Decoder_read(d, Count)
    IN  IF remaining.res # "Ok" THEN remaining
        ELSE [remaining EXCEPT
                 !.value = DecodeCounted_new(remaining.decoder, remaining.value)]

\* <DecodeCounted as Iterator>::next : item is what next returns, "None" or
\* the result of the read
\* decoder.read::<T>() for the item types of the model: a primitive, or a
\* nested DecodeCounted<u16, u8>
Decode_decode(d, T) ==
    IF T \in Primitives THEN Decoder_read(d, T) ELSE DecodeCounted_decode(d, "u8", "u16")

DecodeCounted_next(it, T) ==
    LET c == Countdown_decrement(it.remaining)
        r == Decode_decode(it.decoder, T)
    IN  IF c.state = "Continue"
        THEN [some |-> TRUE, item |-> r.res, value |-> r.value, err |-> r.err,
              it |-> [it EXCEPT !.remaining = c.value, !.decoder = r.decoder]]
        ELSE [some |-> FALSE, item |-> "None", value |-> <<>>, err |-> NoError,
              it |-> it]

\* <DecodeCounted as Iterator>::size_hint
DecodeCounted_size_hint(it) == <<0, it.remaining>>

\* one attribute of the attribute table: a 2-byte name index, a 4-byte
\* length, and as many bytes of content
RECURSIVE SkipAttributeList(_, _)
SkipAttributeList(d, count) ==
    LET name == Decoder_advance(d, 2)
        length == Decoder_read(name.decoder, "u32")
        content == Decoder_advance(length.decoder, length.value)
    IN  IF count = 0 THEN Done(d)
        ELSE IF name.res # "Ok" THEN name
        ELSE IF length.res # "Ok" THEN length
        ELSE IF content.res # "Ok" THEN content
        ELSE SkipAttributeList(content.decoder, count - 1)

\* attributes::skip_attributes : a 2-byte count, then the attributes
skip_attributes(d) ==
    LET count == Decoder_read(d, "u16")
    IN  IF count.res # "Ok" THEN count
        ELSE SkipAttributeList(count.decoder, count.value)

\* for _ in 0..count { decoder.advance(6)?; skip_attributes(decoder)?; }
RECURSIVE SkipFieldList(_, _)
SkipFieldList(d, count) ==
    LET head == Decoder_advance(d, 6)
        attrs == skip_attributes(head.decoder)
    IN  IF count = 0 THEN Done(d)
        ELSE IF head.res # "Ok" THEN head
        ELSE IF attrs.res # "Ok" THEN attrs
        ELSE SkipFieldList(attrs.decoder, count - 1)

\* skip_fields
skip_fields(d) ==
    LET count == Decoder_read(d, "u16")
    IN  IF count.res # "Ok" THEN count
        ELSE SkipFieldList(count.decoder, count.value)

\* a Fields::decode that does not limit the decoder of the fields
Fields_decode_mut(d) ==
    LET field_decoder == Decoder_advance(d, 2)
        skipped == skip_fields(d)
    IN  IF field_decoder.res # "Ok" THEN [field_decoder EXCEPT !.decoder = d]
        ELSE IF skipped.res # "Ok" THEN skipped
        ELSE [skipped EXCEPT !.value = [field_decoder.decoder EXCEPT !.ctx = "Fields"]]

\* <Fields as Decode>::decode : the clone skips the count, the caller's
\* decoder skips the fields, the clone is limited to what was skipped
Fields_decode(d) ==
    LET field_decoder == Decoder_advance(d, 2)
        skipped == skip_fields(d)
        field_length == Decoder_bytes_remaining(field_decoder.decoder)
                            - Decoder_bytes_remaining(skipped.decoder)
        limited == Decoder_limit(field_decoder.decoder, field_length, "Fields")
    IN  IF field_decoder.res # "Ok" THEN [field_decoder EXCEPT !.decoder = d]
        ELSE IF skipped.res # "Ok" THEN skipped
        ELSE [limited EXCEPT !.decoder = skipped.decoder]

\* <Field as Decode>::decode : access flags, name, descriptor, attributes,
\* each read from the caller's decoder
Field_decode(d) ==
    LET access_flags == Decoder_read(d, "u16")
        name == Decoder_read(access_flags.decoder, "u16")
        descriptor == Decoder_read(name.decoder, "u16")
        attributes == skip_attributes(descriptor.decoder)
    IN  IF access_flags.res # "Ok" THEN access_flags
        ELSE IF name.res # "Ok" THEN name
        ELSE IF descriptor.res # "Ok" THEN descriptor
        ELSE attributes

\* byte streams: a u8-counted list of two u16 items, a field table with one
\* field that has one attribute of one byte, a field table with two fields
\* without attributes, an empty table; each with something behind it
Streams ==
    { <<2, 0, 7, 0, 8, 9>>,
      <<0, 1, 1, 2, 3, 4, 5, 6, 0, 1, 0, 9, 0, 0, 0, 1, 33, 44>>,
      <<0, 2, 1, 2, 3, 4, 5, 6, 0, 0, 1, 2, 3, 4, 5, 6, 0, 0, 2>>,
      <<0, 0, 1, 1>> }

\* the inputs of the decodes: the streams, whole or cut short
StreamInputs == UNION {{SubSeq(s, 1, n) : n \in 0 .. Len(s)} : s \in Streams}

CountTypes == {"u8", "u16"}

\* the item types T of DecodeCounted<T, Count>
ItemTypes == CountTypes \cup {"DecodeCounted<u16, u8>"}

DCCall(op, arg, r) ==
    [op |-> op, arg |-> arg, dec0 |-> dec, dc0 |-> dc,
     res |-> r.res, err |-> r.err, some |-> FALSE, erred |-> seen.erred]

\* let it: DecodeCounted<T, Count> = decoder.read()
DecodeCountedDecode(Count, T) ==
    /\ dec.live /\ ~dc.live
    /\ LET r == DecodeCounted_decode(dec, Count, T)
       IN  /\ dec' = r.decoder
           /\ result' = DCCall("DecodeCounted::decode", <<Count, T>>, r)
           /\ IF r.res = "Ok"
              THEN /\ dc' = r.value
                   /\ seen' = [count |-> r.value.remaining, T |-> T,
                               somes |-> 0, nones |-> 0, erred |-> FALSE]
              ELSE UNCHANGED <<dc, seen>>
    /\ UNCHANGED <<otherVars, encoderVars, buf, pool_end, build, tsw, cw, lpe, input, sub>>

\* let it: DecodeCounted<T, Count> = decoder.clone().read_into()
DecodeCountedDecodeInto(Count, T) ==
    /\ dec.live /\ ~dc.live
    /\ LET r == DecodeCounted_decode_into(dec, Count)
       IN  /\ r.res = "Ok" => r.value.remaining <= MaxCount
           /\ result' = DCCall("DecodeCounted::decode_into", <<Count, T>>, r)
           /\ IF r.res = "Ok"
              THEN /\ dc' = r.value
                   /\ seen' = [count |-> r.value.remaining, T |-> T,
                               somes |-> 0, nones |-> 0, erred |-> FALSE]
              ELSE UNCHANGED <<dc, seen>>
    /\ UNCHANGED <<otherVars, encoderVars, buf, pool_end, build, tsw, cw, lpe, input, dec, sub>>

\* let it = DecodeCounted::<T, _>::new(decoder.clone(), count)
DecodeCountedNew(count, T) ==
    /\ dec.live /\ ~dc.live
    /\ dc' = DecodeCounted_new(dec, count)
    /\ seen' = [count |-> count, T |-> T, somes |-> 0, nones |-> 0, erred |-> FALSE]
    /\ result' = DCCall("DecodeCounted::new", <<count, T>>, Done(dec))
    /\ UNCHANGED <<otherVars, encoderVars, buf, pool_end, build, tsw, cw, lpe, input, dec, sub>>

\* it.next()
DecodeCountedNext ==
    /\ dc.live /\ seen.nones < MaxNones
    /\ LET n == DecodeCounted_next(dc, seen.T)
       IN  /\ dc' = n.it
           /\ result' = [DCCall("next", <<>>, [res |-> n.item, err |-> NoError])
                            EXCEPT !.some = n.some]
           /\ seen' = IF n.some
                      THEN [seen EXCEPT !.somes = @ + 1,
                                        !.erred = @ \/ n.item # "Ok"]
                      ELSE [seen EXCEPT !.nones = @ + 1]
    /\ UNCHANGED <<otherVars, encoderVars, buf, pool_end, build, tsw, cw, lpe, input, dec, sub>>

\* let field: Field = decoder.read()
FieldDecode ==
    /\ dec.live
    /\ LET r == Field_decode(dec)
       IN  dec' = r.decoder /\ result' = DCCall("Field::decode", <<>>, r)
    /\ UNCHANGED <<otherVars, encoderVars, buf, pool_end, build, tsw, cw, lpe, input, sub, dc, seen>>

\* let fields: Fields = decoder.read() : sub is the decoder of the Fields
FieldsDecode ==
    /\ dec.live
    /\ LET r == Fields_decode(dec)
       IN  /\ dec' = r.decoder
           /\ result' = DCCall("Fields::decode", <<>>, r)
           /\ sub' = IF r.res = "Ok" THEN r.value ELSE sub
    /\ UNCHANGED <<otherVars, encoderVars, buf, pool_end, build, tsw, cw, lpe, input, dc, seen>>

InitDC ==
    /\ buf = <<>> /\ pool_end = 0 /\ build = "release"
    /\ tsw = NoTableSwitchWriter
    /\ cw = NoCountedWriter
    /\ lpe = NoLengthPrefixedEncoder
    /\ IdleEncoders /\ IdleOthers
    /\ input \in StreamInputs
    /\ dec = Decoder_new(input, "Start")
    /\ sub = NoDecoder
    /\ dc = NoDecodeCounted
    /\ seen = [count |-> 0, T |-> "u8", somes |-> 0, nones |-> 0, erred |-> FALSE]
    /\ result = DCCall("none", <<>>, Done(dec))

NextDC ==
    \/ \E Count \in CountTypes, T \in CountTypes : DecodeCountedDecode(Count, T)
    \/ \E Count \in CountTypes, T \in CountTypes : DecodeCountedDecodeInto(Count, T)
    \/ \E count \in 0 .. MaxCount, T \in ItemTypes : DecodeCountedNew(count, T)
    \/ DecodeCountedNext
    \/ \E n \in 1 .. 2 : Advance("dec", n)

SpecDC == InitDC /\ [][NextDC]_vars

\* the multi-step decodes, from every position of every input
NextMS ==
    \/ \E Count \in CountTypes, T \in CountTypes : DecodeCountedDecode(Count, T)
    \/ FieldDecode
    \/ FieldsDecode
    \/ \E n \in 1 .. 2 : Advance("dec", n)

SpecMS == InitDC /\ [][NextMS]_vars

(***************************************************************************)
(* Multi-step decodes and DecodeCounted: properties                        *)
(***************************************************************************)
MultiStep == {"DecodeCounted::decode", "Field::decode", "Fields::decode"}

\* C18 (as claimed): a multi-step decode (DecodeCounted::decode,
\* Field::decode, Fields::decode) that fails part-way leaves the caller's
\* shared cursor exactly as it was before the call.
C18_SharedCursorUnchanged ==
    (result.op \in MultiStep /\ result.res # "Ok") => dec = result.dec0

\* C18 (amended): the steps of a multi-step decode run on the caller's
\* cursor itself.  A decode that fails part-way leaves the shared cursor at
\* the failing step: behind every byte the steps before it consumed, at the
\* position the UnexpectedEoi error reports, still a consistent view of the
\* input with its context.  On success it is behind the whole structure,
\* and the clone taken on the way is the decoder of the value returned.
C18_SharedCursorAtFailingStep ==
    result.op \in MultiStep =>
        /\ dec.buf = SubSeq(input, dec.file_position + 1, Len(input))
        /\ dec.ctx = result.dec0.ctx
        /\ dec.file_position >= result.dec0.file_position
        /\ result.res # "Ok" =>
               /\ result.res = "UnexpectedEoi"
               /\ result.err.position = dec.file_position
               /\ result.err.context = result.dec0.ctx
        /\ (result.op = "DecodeCounted::decode" /\ result.res = "Ok") =>
               /\ dc.decoder = Consumed(result.dec0, PrimitiveLen(result.arg[1]))
               /\ dec = Consumed(dc.decoder, dc.remaining * PrimitiveLen(result.arg[2]))
        /\ (result.op = "Fields::decode" /\ result.res = "Ok") =>
               /\ sub.file_position = result.dec0.file_position + 2
               /\ sub.file_position + Decoder_bytes_remaining(sub) = dec.file_position
               /\ sub.ctx = "Fields"

\* a list of two u16 items cut short in its second item: the failed decode
\* leaves the caller's cursor behind the count and the first item
C18_Witness ==
    /\ result.op = "DecodeCounted::decode" /\ result.arg = <<"u8", "u16">>
    /\ result.res = "UnexpectedEoi"
    /\ input = <<2, 0, 7, 0>>
    /\ result.dec0.file_position = 0 /\ dec.file_position = 3
    /\ result.err.position = 3

\* C20: a DecodeCounted made with count c is finite and fused: exactly c
\* calls of next return Some (an item or an error), every later call
\* returns None, and the upper bound of size_hint is the number of Some
\* results still to come.
C20_FiniteFused ==
    dc.live =>
        /\ seen.somes <= seen.count
        /\ DecodeCounted_size_hint(dc) = <<0, seen.count - seen.somes>>
        /\ result.op = "next" =>
               /\ result.some => seen.nones = 0 /\ result.res \in {"Ok", "UnexpectedEoi"}
               /\ ~result.some => seen.somes = seen.count /\ result.res = "None"

\* two items were announced and the input ends inside the second: next gave
\* an item, then an error, then None twice
C20_Witness ==
    /\ dc.live /\ input = <<2, 0, 7, 0>> /\ seen.T = "u16"
    /\ seen.count = 2 /\ seen.somes = 2 /\ seen.nones = 2
    /\ dc.decoder.file_position = 3
    /\ result.op = "next" /\ ~result.some

\* C21 (as claimed): once next has produced a decode error, no later call
\* of next on that DecodeCounted yields a successfully decoded item.
C21_NoItemAfterError ==
    (result.op = "next" /\ result.erred) => result.res # "Ok"

-----------------------------------------------------------------------------
\* DecodeCountedCopy (reader/decoding.rs): a DecodeCounted that is only ever
\* handed out as clones.  Specification SpecCopy decodes one DecodeCountedCopy
\* from the input, asks it for sequences with iter() and consumes them in any
\* interleaving.

MaxIters == 2

\* a clone that forgets the counter
DecodeCounted_clone_mut(it) == DecodeCounted_new(it.decoder, 0)

\* <DecodeCounted as Clone>::clone
DecodeCounted_clone(it) == DecodeCounted_new(it.decoder, it.remaining)

\* DecodeCountedCopy::iter
DecodeCountedCopy_iter(c) == DecodeCounted_clone(c.iter)

\* <DecodeCountedCopy as Decode>::decode : decoder.read()? wrapped
DecodeCountedCopy_decode(d, Count, T) ==
    LET r == DecodeCounted_decode(d, Count, T)
    IN  IF r.res = "Ok" THEN [r EXCEPT !.value = [live |-> TRUE, iter |-> r.value]] ELSE r

\* <DecodeCountedCopy as DecodeInto>::decode_into : decoder.read_into()? wrapped
DecodeCountedCopy_decode_into(d, Count) ==
    LET r == DecodeCounted_decode_into(d, Count)
    IN  IF r.res = "Ok" THEN [r EXCEPT !.value = [live |-> TRUE, iter |-> r.value]] ELSE r

\* what a call of next hands to its caller: None, or Some(Ok(value)) or
\* Some(Err(err))
Yield(n) == IF n.some THEN <<n.item, n.value, n.err>> ELSE <<"None">>

\* the record of one call on the copy or on one of its sequences
CopyCall(op, arg, res) == [op |-> op, arg |-> arg, res |-> res]

\* let copy: DecodeCountedCopy<T, Count> = decoder.read()
CopyDecode(Count, T) ==
    /\ dec.live /\ ~copy.live
    /\ LET r == DecodeCountedCopy_decode(dec, Count, T)
       IN  /\ dec' = r.decoder
           /\ result' = CopyCall("DecodeCountedCopy::decode", <<Count, T>>, r.res)
           /\ IF r.res = "Ok"
              THEN copy' = r.value /\ seen' = [seen EXCEPT !.T = T, !.copy0 = r.value]
              ELSE UNCHANGED <<copy, seen>>
    /\ UNCHANGED <<encoderVars, buf, pool_end, build, tsw, cw, lpe, input, sub, dc,
                   its, lazy, cpool, aw>>

\* let copy: DecodeCountedCopy<T, Count> = decoder.clone().read_into()
CopyDecodeInto(Count, T) ==
    /\ dec.live /\ ~copy.live
    /\ LET r == DecodeCountedCopy_decode_into(dec, Count)
       IN  /\ r.res = "Ok" => r.value.iter.remaining <= MaxCount
           /\ result' = CopyCall("DecodeCountedCopy::decode_into", <<Count, T>>, r.res)
           /\ IF r.res = "Ok"
              THEN copy' = r.value /\ seen' = [seen EXCEPT !.T = T, !.copy0 = r.value]
              ELSE UNCHANGED <<copy, seen>>
    /\ UNCHANGED <<encoderVars, buf, pool_end, build, tsw, cw, lpe, input, dec, sub, dc,
                   its, lazy, cpool, aw>>

\* let it = copy.iter()
CopyIter ==
    /\ copy.live /\ Len(its) < MaxIters
    /\ its' = Append(its, DecodeCountedCopy_iter(copy))
    /\ seen' = [seen EXCEPT !.items = Append(@, <<>>)]
    /\ result' = CopyCall("iter", Len(its) + 1, "Ok")
    /\ UNCHANGED <<encoderVars, buf, pool_end, build, tsw, cw, lpe, input, dec, sub, dc,
                   copy, lazy, cpool, aw>>

\* its[i].next()
CopyNext(i) ==
    /\ i \in DOMAIN its
    /\ Len(seen.items[i]) <= seen.copy0.iter.remaining
    /\ LET n == DecodeCounted_next(its[i], seen.T)
       IN  /\ its' = [its EXCEPT ![i] = n.it]
           /\ seen' = [seen EXCEPT !.items[i] = Append(@, Yield(n))]
           /\ result' = CopyCall("next", i, n.item)
    /\ UNCHANGED <<encoderVars, buf, pool_end, build, tsw, cw, lpe, input, dec, sub, dc,
                   copy, lazy, cpool, aw>>

InitCopy ==
    /\ buf = <<>> /\ pool_end = 0 /\ build = "release"
    /\ tsw = NoTableSwitchWriter
    /\ cw = NoCountedWriter
    /\ lpe = NoLengthPrefixedEncoder
    /\ IdleEncoders /\ IdleOthers
    /\ input \in StreamInputs
    /\ dec = Decoder_new(input, "Start")
    /\ sub = NoDecoder
    /\ dc = NoDecodeCounted
    /\ seen = [T |-> "u8", copy0 |-> NoCopy, items |-> <<>>]
    /\ result = CopyCall("none", <<>>, "Ok")

NextCopy ==
    \/ \E Count \in CountTypes, T \in CountTypes : CopyDecode(Count, T)
    \/ \E Count \in CountTypes, T \in ItemTypes : CopyDecodeInto(Count, T)
    \/ CopyIter
    \/ \E i \in 1 .. MaxIters : CopyNext(i)

SpecCopy == InitCopy /\ [][NextCopy]_vars

\* a sequence starting at the retained decoder and counter, after n calls of
\* next: the sequence that is left and what the calls yielded, in order
RECURSIVE Consume(_, _, _)
Consume(it, n, T) ==
    IF n = 0 THEN [it |-> it, items |-> <<>>]
    ELSE LET before == Consume(it, n - 1, T)
             call == DecodeCounted_next(before.it, T)
         IN  [it |-> call.it, items |-> Append(before.items, Yield(call))]

\* C22: every sequence handed out by DecodeCountedCopy::iter is a fresh
\* sequence starting at the retained decoder and counter: whatever has been
\* consumed of it is what such a sequence yields, in order, so any two of them
\* agree on the items both have yielded; and consuming one changes neither the
\* DecodeCountedCopy nor any other sequence.
C22_FreshSequences ==
    copy.live =>
        /\ copy = seen.copy0
        /\ \A i \in DOMAIN its :
               LET fresh == Consume(DecodeCounted_new(copy.iter.decoder, copy.iter.remaining),
                                    Len(seen.items[i]), seen.T)
               IN  seen.items[i] = fresh.items /\ its[i] = fresh.it
        /\ \A i, j \in DOMAIN its :
               \A k \in DOMAIN seen.items[i] \cap DOMAIN seen.items[j] :
                   seen.items[i][k] = seen.items[j][k]

\* two sequences of one copy: the first has yielded two items, and then the
\* second, handed out by the same copy, yields its first item
C22_Witness ==
    /\ copy.live /\ copy.iter.remaining >= 2
    /\ Len(its) = 2
    /\ Len(seen.items[1]) = 2 /\ Len(seen.items[2]) = 1
    /\ seen.items[1][1][1] = "Ok" /\ seen.items[1][2][1] = "Ok"
    /\ result.op = "next" /\ result.arg = 2 /\ result.res = "Ok"

-----------------------------------------------------------------------------
\* LazyDecodeRef (reader/decoding.rs): a value decoded on the first get and
\* remembered.  Specification SpecLazy calls get with either of two decoders
\* over the same input, which are moved about between the calls.

MaxGets == 3

\* the types R a LazyDecodeRef<R> is read as
LazyTypes == Primitives \cup {"DecodeCounted<u16, u8>"}

\* the inputs of the gets: a list of one u16 and the start of a list of two,
\* whole or cut short
LazyInputs == {SubSeq(<<1, 0, 7, 2, 0>>, 1, n) : n \in 0 .. 5}

LazyDecodeRef_NotRead == [state |-> "NotRead"]
LazyDecodeRef_Read(v) == [state |-> "Read", value |-> v]
LazyDecodeRef_Error(err) == [state |-> "Error", err |-> err]

\* a get that does not remember a failure
LazyDecodeRef_get_mut(l, d, R) ==
    CASE l.state = "NotRead" ->
            LET r == Decode_decode(d, R)
            IN  IF r.res = "Ok"
                THEN [res |-> "Ok", decoder |-> r.decoder, value |-> <<r.value>>,
                      err |-> NoError, lazy |-> LazyDecodeRef_Read(r.value)]
                ELSE [res |-> r.res, decoder |-> r.decoder, value |-> <<>>,
                      err |-> r.err, lazy |-> l]
      [] l.state = "Read" ->
            [res |-> "Ok", decoder |-> d, value |-> <<l.value>>, err |-> NoError,
             lazy |-> l]
      [] l.state = "Error" ->
            [res |-> l.err.kind, decoder |-> d, value |-> <<>>, err |-> l.err,
             lazy |-> l]

\* LazyDecodeRef::get : the result, the decoder passed and the reference
\* after the call
LazyDecodeRef_get(l, d, R) ==
    CASE l.state = "NotRead" ->
            LET r == Decode_decode(d, R)
            IN  IF r.res = "Ok"
                THEN [res |-> "Ok", decoder |-> r.decoder, value |-> <<r.value>>,
                      err |-> NoError, lazy |-> LazyDecodeRef_Read(r.value)]
                ELSE [res |-> r.res, decoder |-> r.decoder, value |-> <<>>,
                      err |-> r.err, lazy |-> LazyDecodeRef_Error(r.err)]
      [] l.state = "Read" ->
            [res |-> "Ok", decoder |-> d, value |-> <<l.value>>, err |-> NoError,
             lazy |-> l]
      [] l.state = "Error" ->
            [res |-> l.err.kind, decoder |-> d, value |-> <<>>, err |-> l.err,
             lazy |-> l]

\* what a get hands to its caller
Outcome(r) == [res |-> r.res, value |-> r.value, err |-> r.err]

\* the record of one call
LazyCall(op, on, r) ==
    [op |-> op, on |-> on, lazy0 |-> lazy, d0 |-> Target(on), d1 |-> r.decoder,
     out |-> Outcome(r)]

\* lazy.get(&mut decoder), with dec or sub as the decoder
LazyGet(t) ==
    /\ Target(t).live /\ seen.gets < MaxGets
    /\ LET r == LazyDecodeRef_get(lazy, Target(t), seen.R)
       IN  /\ lazy' = r.lazy
           /\ Put(t, r.decoder)
           /\ result' = LazyCall("get", t, r)
           /\ seen' = [seen EXCEPT
                         !.gets = @ + 1,
                         !.reads = IF lazy.state = "NotRead" THEN @ + 1 ELSE @,
                         !.first = IF seen.gets = 0 THEN <<Outcome(r)>> ELSE @]
    /\ UNCHANGED <<encoderVars, buf, pool_end, build, tsw, cw, lpe, input, dc,
                   copy, its, cpool, aw>>

\* decoder.advance(n) between the gets
LazyAdvance(t, n) ==
    /\ Target(t).live
    /\ LET r == Decoder_advance(Target(t), n)
       IN  /\ r.res = "Ok"
           /\ Put(t, r.decoder)
           /\ result' = LazyCall("advance", t, [r EXCEPT !.value = <<>>])
    /\ UNCHANGED <<encoderVars, buf, pool_end, build, tsw, cw, lpe, input, dc,
                   copy, its, lazy, cpool, aw, seen>>

InitLazy ==
    /\ buf = <<>> /\ pool_end = 0 /\ build = "release"
    /\ tsw = NoTableSwitchWriter
    /\ cw = NoCountedWriter
    /\ lpe = NoLengthPrefixedEncoder
    /\ IdleEncoders
    /\ copy = NoCopy /\ its = <<>> /\ cpool = <<>> /\ aw = NoAttributeWriter
    /\ input \in LazyInputs
    /\ dec = Decoder_new(input, "Start")
    /\ sub = Decoder_new(input, "ConstantPool")
    /\ dc = NoDecodeCounted
    /\ lazy = LazyDecodeRef_NotRead
    /\ \E R \in LazyTypes : seen = [R |-> R, gets |-> 0, reads |-> 0, first |-> <<>>]
    /\ result = LazyCall("none", "dec", Done(dec))

NextLazy ==
    \/ \E t \in {"dec", "sub"} : LazyGet(t)
    \/ \E t \in {"dec", "sub"}, n \in 1 .. 2 : LazyAdvance(t, n)

SpecLazy == InitLazy /\ [][NextLazy]_vars

\* C23: over any sequence of get calls on one LazyDecodeRef the decoder is
\* read in at most one call, the first, made in state NotRead; Read and Error
\* are absorbing; and every later get returns the value or the error of the
\* first call and leaves the decoder passed to it as it was.
C23_ReadAtMostOnce ==
    /\ seen.reads <= 1
    /\ seen.gets >= 1 => lazy.state # "NotRead"
    /\ result.op = "get" =>
          /\ result.lazy0.state = "NotRead" <=> seen.gets = 1
          /\ result.out = seen.first[1]
          /\ result.lazy0.state # "NotRead" =>
                /\ lazy = result.lazy0
                /\ result.d1 = result.d0

\* a later get after a first get that failed, made with a decoder from which
\* the value could have been decoded: it returns the error of the first get
C23_Witness ==
    /\ result.op = "get" /\ seen.gets >= 2
    /\ result.on = "sub"
    /\ lazy.state = "Error"
    /\ Decode_decode(sub, seen.R).res = "Ok"

-----------------------------------------------------------------------------
\* Constant pool resolution (reader/cpool/value.rs): ToValue::retrieve_from
\* for every typed index.  A pool is the sequence of its slots, slot i holding
\* the entry of index i; resolution is a function of the pool and the index.
\* Specification SpecCP resolves typed indices against a family of pools: a
\* well-formed pool and every pool obtained from it by replacing one item,
\* which gives mismatching tags, indices out of range and reference cycles.
\* Each behaviour resolves one typed index against its pool, and then the same
\* index once more.

MaxIndex == 8

Max(a, b) == IF a >= b THEN a ELSE b

\* the entries of a pool (cpool::Item), with the fields retrieve_from reads
Utf8(content) == [tag |-> "Utf8", content |-> content]
Class(name) == [tag |-> "Class", name |-> name]
String(string) == [tag |-> "String", string |-> string]
Integer(value) == [tag |-> "Integer", value |-> value]
Long(value) == [tag |-> "Long", value |-> value]
Float(value) == [tag |-> "Float", value |-> value]
Double(value) == [tag |-> "Double", value |-> value]
NameAndType(name, descriptor) ==
    [tag |-> "NameAndType", name |-> name, descriptor |-> descriptor]
FieldRef(class, name_and_type) ==
    [tag |-> "FieldRef", class |-> class, name_and_type |-> name_and_type]
MethodRef(class, name_and_type) ==
    [tag |-> "MethodRef", class |-> class, name_and_type |-> name_and_type]
InterfaceMethodRef(class, name_and_type) ==
    [tag |-> "InterfaceMethodRef", class |-> class, name_and_type |-> name_and_type]
MethodHandle(kind, reference) ==
    [tag |-> "MethodHandle", kind |-> kind, reference |-> reference]
MethodType(descriptor) == [tag |-> "MethodType", descriptor |-> descriptor]
Dynamic(bootstrap_method_attr, name_and_type) ==
    [tag |-> "Dynamic", bootstrap_method_attr |-> bootstrap_method_attr,
     name_and_type |-> name_and_type]
InvokeDynamic(bootstrap_method_attr, name_and_type) ==
    [tag |-> "InvokeDynamic", bootstrap_method_attr |-> bootstrap_method_attr,
     name_and_type |-> name_and_type]
Module(name) == [tag |-> "Module", name |-> name]
Package(name) == [tag |-> "Package", name |-> name]

\* the slot after a Long or a Double
Unusable == [tag |-> "Unusable"]

\* the kinds of typed index that can be resolved
Kinds ==
    {"Utf8", "Class", "String", "Integer", "Long", "Float", "Double",
     "NameAndType", "FieldRef", "MethodRef", "InterfaceMethodRef",
     "MethodHandle", "MethodType", "Dynamic", "InvokeDynamic", "Module", "Package"}

\* the pool holding the items in order: an 8-byte entry takes two slots
RECURSIVE ConstantPool_of(_)
ConstantPool_of(items) ==
    IF items = <<>> THEN <<>>
    ELSE LET item == items[Len(items)]
             before == ConstantPool_of(SubSeq(items, 1, Len(items) - 1))
         IN  IF item.tag \in {"Long", "Double"}
             THEN before \o <<item, Unusable>>
             ELSE Append(before, item)

\* one lookup and its outcome: the entry, or a range or a tag error; the
\* lookups made and the depth of the chain of lookups are kept with it
ConstantPool_get(pool, index, tag) ==
    LET lookup == [index |-> index, tag |-> tag]
    IN  IF index = 0 \/ index > Len(pool) \/ pool[index] = Unusable
        THEN [res |-> "InvalidIndex", value |-> <<>>,
              err |-> [kind |-> "InvalidIndex", context |-> "ConstantPool"],
              lookups |-> <<lookup>>, depth |-> 1]
        ELSE IF tag # "Item" /\ pool[index].tag # tag
        THEN [res |-> "TagMismatch", value |-> <<>>,
              err |-> [kind |-> "TagMismatch", context |-> "ConstantPool"],
              lookups |-> <<lookup>>, depth |-> 1]
        ELSE [res |-> "Ok", value |-> pool[index], err |-> NoError,
              lookups |-> <<lookup>>, depth |-> 1]

\* the lookups of the steps of one resolution, in the order they were made
RECURSIVE Lookups(_)
Lookups(steps) ==
    IF steps = <<>> THEN <<>> ELSE Head(steps).lookups \o Lookups(Tail(steps))

\* the depth of a resolution whose first step is the lookup of the entry
\* itself and whose other steps resolve the indices nested in it
RECURSIVE Deepest(_)
Deepest(steps) ==
    IF steps = <<>> THEN 0 ELSE Max(Head(steps).depth, Deepest(Tail(steps)))

Depth(steps) == 1 + Deepest(Tail(steps))

\* `?` on the last of the steps made: the resolution returns its error
Failed(steps) ==
    [res |-> steps[Len(steps)].res, value |-> <<>>, err |-> steps[Len(steps)].err,
     lookups |-> Lookups(steps), depth |-> Depth(steps)]

\* Ok(value) after all the steps
Resolved(steps, value) ==
    [res |-> "Ok", value |-> value, err |-> NoError,
     lookups |-> Lookups(steps), depth |-> Depth(steps)]

\* ToValue for Index<cpool::Utf8>
Utf8_retrieve_from(pool, index) ==
    LET this == ConstantPool_get(pool, index, "Utf8")
    IN  IF this.res # "Ok" THEN Failed(<<this>>)
        ELSE Resolved(<<this>>, this.value.content)

\* ToValue for Index<cpool::Class>
Class_retrieve_from(pool, index) ==
    LET this == ConstantPool_get(pool, index, "Class")
        name == Utf8_retrieve_from(pool, this.value.name)
    IN  IF this.res # "Ok" THEN Failed(<<this>>)
        ELSE IF name.res # "Ok" THEN Failed(<<this, name>>)
        ELSE Resolved(<<this, name>>, [name |-> name.value])

\* ToValue for Index<cpool::NameAndType>
NameAndType_retrieve_from(pool, index) ==
    LET this == ConstantPool_get(pool, index, "NameAndType")
        name == Utf8_retrieve_from(pool, this.value.name)
        descriptor == Utf8_retrieve_from(pool, this.value.descriptor)
    IN  IF this.res # "Ok" THEN Failed(<<this>>)
        ELSE IF name.res # "Ok" THEN Failed(<<this, name>>)
        ELSE IF descriptor.res # "Ok" THEN Failed(<<this, name, descriptor>>)
        ELSE Resolved(<<this, name, descriptor>>,
                      [name |-> name.value, descriptor |-> descriptor.value])

\* a resolution of a reference that resolves the name and type first
Ref_retrieve_from_mut(pool, index, tag) ==
    LET this == ConstantPool_get(pool, index, tag)
        class == Class_retrieve_from(pool, this.value.class)
        name_and_type == NameAndType_retrieve_from(pool, this.value.name_and_type)
    IN  IF this.res # "Ok" THEN Failed(<<this>>)
        ELSE IF name_and_type.res # "Ok" THEN Failed(<<this, name_and_type>>)
        ELSE IF class.res # "Ok" THEN Failed(<<this, name_and_type, class>>)
        ELSE Resolved(<<this, name_and_type, class>>,
                      [class |-> class.value, name_and_type |-> name_and_type.value])

\* ToValue for Index<cpool::FieldRef>, Index<cpool::MethodRef> and
\* Index<cpool::InterfaceMethodRef>, which differ in the tag only
Ref_retrieve_from(pool, index, tag) ==
    LET this == ConstantPool_get(pool, index, tag)
        class == Class_retrieve_from(pool, this.value.class)
        name_and_type == NameAndType_retrieve_from(pool, this.value.name_and_type)
    IN  IF this.res # "Ok" THEN Failed(<<this>>)
        ELSE IF class.res # "Ok" THEN Failed(<<this, class>>)
        ELSE IF name_and_type.res # "Ok" THEN Failed(<<this, class, name_and_type>>)
        ELSE Resolved(<<this, class, name_and_type>>,
                      [class |-> class.value, name_and_type |-> name_and_type.value])

\* ToValue for Index<cpool::String>
String_retrieve_from(pool, index) ==
    LET this == ConstantPool_get(pool, index, "String")
        string == Utf8_retrieve_from(pool, this.value.string)
    IN  IF this.res # "Ok" THEN Failed(<<this>>)
        ELSE IF string.res # "Ok" THEN Failed(<<this, string>>)
        ELSE Resolved(<<this, string>>, [string |-> string.value])

\* ToValue for Index<cpool::Integer>, Index<cpool::Long>, Index<cpool::Float>
\* and Index<cpool::Double>
Number_retrieve_from(pool, index, tag) ==
    LET this == ConstantPool_get(pool, index, tag)
    IN  IF this.res # "Ok" THEN Failed(<<this>>)
        ELSE Resolved(<<this>>, [value |-> this.value.value])

\* a resolution of a MethodHandle that resolves the entry it refers to
MethodHandle_retrieve_from_mut(pool, index) ==
    LET this == ConstantPool_get(pool, index, "MethodHandle")
        reference == Ref_retrieve_from(pool, this.value.reference, "FieldRef")
    IN  IF this.res # "Ok" THEN Failed(<<this>>)
        ELSE IF reference.res # "Ok" THEN Failed(<<this, reference>>)
        ELSE Resolved(<<this, reference>>,
                      [kind |-> this.value.kind, reference |-> reference.value])

\* ToValue for Index<cpool::MethodHandle> : the entry referred to is looked
\* up as a raw item and cloned
MethodHandle_retrieve_from(pool, index) ==
    LET this == ConstantPool_get(pool, index, "MethodHandle")
        reference == ConstantPool_get(pool, this.value.reference, "Item")
    IN  IF this.res # "Ok" THEN Failed(<<this>>)
        ELSE IF reference.res # "Ok" THEN Failed(<<this, reference>>)
        ELSE Resolved(<<this, reference>>,
                      [kind |-> this.value.kind, reference |-> reference.value])

\* ToValue for Index<cpool::MethodType>
MethodType_retrieve_from(pool, index) ==
    LET this == ConstantPool_get(pool, index, "MethodType")
        descriptor == Utf8_retrieve_from(pool, this.value.descriptor)
    IN  IF this.res # "Ok" THEN Failed(<<this>>)
        ELSE IF descriptor.res # "Ok" THEN Failed(<<this, descriptor>>)
        ELSE Resolved(<<this, descriptor>>, [descriptor |-> descriptor.value])

\* ToValue for Index<cpool::Dynamic> and Index<cpool::InvokeDynamic>
Dynamic_retrieve_from(pool, index, tag) ==
    LET this == ConstantPool_get(pool, index, tag)
        name_and_type == NameAndType_retrieve_from(pool, this.value.name_and_type)
    IN  IF this.res # "Ok" THEN Failed(<<this>>)
        ELSE IF name_and_type.res # "Ok" THEN Failed(<<this, name_and_type>>)
        ELSE Resolved(<<this, name_and_type>>,
                      [bootstrap_method_attr |-> this.value.bootstrap_method_attr,
                       name_and_type |-> name_and_type.value])

\* ToValue for Index<cpool::Module> and Index<cpool::Package>
Named_retrieve_from(pool, index, tag) ==
    LET this == ConstantPool_get(pool, index, tag)
        name == Utf8_retrieve_from(pool, this.value.name)
    IN  IF this.res # "Ok" THEN Failed(<<this>>)
        ELSE IF name.res # "Ok" THEN Failed(<<this, name>>)
        ELSE Resolved(<<this, name>>, [name |-> name.value])

\* ToValue::retrieve_from of Index<kind>
ToValue_retrieve_from(pool, kind, index) ==
    CASE kind = "Utf8" -> Utf8_retrieve_from(pool, index)
      [] kind = "Class" -> Class_retrieve_from(pool, index)
      [] kind = "String" -> String_retrieve_from(pool, index)
      [] kind \in {"Integer", "Long", "Float", "Double"} ->
            Number_retrieve_from(pool, index, kind)
      [] kind = "NameAndType" -> NameAndType_retrieve_from(pool, index)
      [] kind \in {"FieldRef", "MethodRef", "InterfaceMethodRef"} ->
            Ref_retrieve_from(pool, index, kind)
      [] kind = "MethodHandle" -> MethodHandle_retrieve_from(pool, index)
      [] kind = "MethodType" -> MethodType_retrieve_from(pool, index)
      [] kind \in {"Dynamic", "InvokeDynamic"} -> Dynamic_retrieve_from(pool, index, kind)
      [] kind \in {"Module", "Package"} -> Named_retrieve_from(pool, index, kind)

\* a well-formed pool: a field reference, the entries it refers to, a method
\* handle on it and an 8-byte number
BaseItems ==
    << Utf8("a"), Class(1), NameAndType(1, 1), FieldRef(2, 3), MethodHandle(1, 4),
       Long(7) >>

\* the items put in the place of one item of the well-formed pool
Replacements ==
    UNION {{ Class(i), NameAndType(i, 1), NameAndType(1, i), FieldRef(i, 3),
             FieldRef(2, i), MethodRef(i, 0), InterfaceMethodRef(0, i),
             MethodHandle(1, i) } : i \in 0 .. MaxIndex}
    \cup { Utf8("b"), String(1), Integer(1), Long(2), Float(3), Double(4),
           MethodRef(2, 3), InterfaceMethodRef(2, 3), MethodType(1),
           Dynamic(0, 3), InvokeDynamic(0, 3), Module(1), Package(1) }

Pools ==
    {ConstantPool_of([BaseItems EXCEPT ![at] = item]) :
        at \in DOMAIN BaseItems, item \in Replacements}

\* what a resolution hands to its caller
Retrieved(r) == [res |-> r.res, value |-> r.value, err |-> r.err]

\* the record of one resolution; prev holds the outcome of the resolution
\* before it when that was of the same index
CPCall(kind, index, r, prev) ==
    [kind |-> kind, index |-> index, out |-> Retrieved(r), lookups |-> r.lookups,
     depth |-> r.depth, prev |-> prev]

\* a resolution that takes the entry out of the pool
Retrieve_mut(kind, index) ==
    /\ result.kind = "none"
    /\ result' = CPCall(kind, index, ToValue_retrieve_from(cpool, kind, index), <<>>)
    /\ cpool' = [i \in DOMAIN cpool |-> IF i = index THEN Unusable ELSE cpool[i]]
    /\ UNCHANGED <<encoderVars, readerVars, buf, pool_end, build, tsw, cw, lpe,
                   copy, its, lazy, aw, seen>>

\* pool.retrieve(index) for an Index<kind>
Retrieve(kind, index) ==
    /\ result.kind = "none"
    /\ result' = CPCall(kind, index, ToValue_retrieve_from(cpool, kind, index), <<>>)
    /\ UNCHANGED <<encoderVars, readerVars, buf, pool_end, build, tsw, cw, lpe,
                   copy, its, lazy, cpool, aw, seen>>

\* pool.retrieve(index) once more for the index resolved last
RetrieveAgain ==
    /\ result.kind \in Kinds /\ result.prev = <<>>
    /\ result' = CPCall(result.kind, result.index,
                        ToValue_retrieve_from(cpool, result.kind, result.index),
                        <<result.out>>)
    /\ UNCHANGED <<encoderVars, readerVars, buf, pool_end, build, tsw, cw, lpe,
                   copy, its, lazy, cpool, aw, seen>>

InitCP ==
    /\ buf = <<>> /\ pool_end = 0 /\ build = "release"
    /\ tsw = NoTableSwitchWriter
    /\ cw = NoCountedWriter
    /\ lpe = NoLengthPrefixedEncoder
    /\ IdleEncoders /\ IdleReader
    /\ copy = NoCopy /\ its = <<>> /\ lazy = NoLazy /\ aw = NoAttributeWriter
    /\ cpool \in Pools
    /\ seen = <<>>
    /\ result = [kind |-> "none", index |-> 0,
                 out |-> [res |-> "Ok", value |-> <<>>, err |-> NoError],
                 lookups |-> <<>>, depth |-> 0, prev |-> <<>>]

NextCP ==
    \/ \E kind \in Kinds, index \in 0 .. MaxIndex : Retrieve(kind, index)
    \/ RetrieveAgain

SpecCP == InitCP /\ [][NextCP]_vars

\* the indices an entry holds, each with the tag expected of the entry it
\* refers to (none for the reference of a MethodHandle)
NestedIndices(entry) ==
    CASE entry.tag \in {"Class", "Module", "Package"} ->
            {[index |-> entry.name, tag |-> "Utf8"]}
      [] entry.tag = "String" -> {[index |-> entry.string, tag |-> "Utf8"]}
      [] entry.tag = "MethodType" -> {[index |-> entry.descriptor, tag |-> "Utf8"]}
      [] entry.tag = "NameAndType" ->
            {[index |-> entry.name, tag |-> "Utf8"],
             [index |-> entry.descriptor, tag |-> "Utf8"]}
      [] entry.tag \in {"FieldRef", "MethodRef", "InterfaceMethodRef"} ->
            {[index |-> entry.class, tag |-> "Class"],
             [index |-> entry.name_and_type, tag |-> "NameAndType"]}
      [] entry.tag \in {"Dynamic", "InvokeDynamic"} ->
            {[index |-> entry.name_and_type, tag |-> "NameAndType"]}
      [] entry.tag = "MethodHandle" -> {[index |-> entry.reference, tag |-> "Item"]}
      [] OTHER -> {}

\* the entry at the index is in range and has the tag, and so has, down to
\* the given number of levels, every index nested in it
RECURSIVE Sound(_, _, _, _)
Sound(pool, index, tag, levels) ==
    /\ ConstantPool_get(pool, index, tag).res = "Ok"
    /\ levels > 0 =>
          \A nested \in NestedIndices(pool[index]) :
              Sound(pool, nested.index, nested.tag, levels - 1)

\* C24 (as claimed): a resolution succeeds only if the entry at the index has
\* the expected tag and every index nested in it, transitively, the entry a
\* MethodHandle refers to included, is in range and has its expected tag.
C24_SucceedsOnlyIfSound ==
    (result.kind \in Kinds /\ result.out.res = "Ok")
        => Sound(cpool, result.index, result.kind, Len(cpool))

\* the kinds of reference to a member of a class
Refs == {"FieldRef", "MethodRef", "InterfaceMethodRef"}

\* the lookup made by the k-th step of the resolution recorded in result
LookedUp(k) == ConstantPool_get(cpool, result.lookups[k].index, result.lookups[k].tag)

\* C25: resolution is depth-first and stops at the first failure: every
\* lookup before the last one succeeded, a failed resolution returns the error
\* of its last lookup, and for a FieldRef, MethodRef or InterfaceMethodRef the
\* class index is resolved, with the name it refers to, before the
\* name-and-type index, which is not looked up when the class fails.
C25_DepthFirstFirstFailure ==
    result.kind \in Kinds =>
        /\ \A k \in 1 .. Len(result.lookups) - 1 : LookedUp(k).res = "Ok"
        /\ LookedUp(Len(result.lookups)).res = result.out.res
        /\ LookedUp(Len(result.lookups)).err = result.out.err
        /\ (result.kind \in Refs /\ LookedUp(1).res = "Ok") =>
              LET this == cpool[result.index]
                  class == Class_retrieve_from(cpool, this.class)
                  after == 1 + Len(class.lookups)
              IN  /\ Len(result.lookups) >= after
                  /\ SubSeq(result.lookups, 2, after) = class.lookups
                  /\ class.res # "Ok" =>
                        /\ Len(result.lookups) = after
                        /\ result.out.err = class.err
                  /\ class.res = "Ok" =>
                        /\ Len(result.lookups) > after
                        /\ result.lookups[after + 1] =
                               [index |-> this.name_and_type, tag |-> "NameAndType"]

\* a reference whose class and whose name and type both fail to resolve, with
\* different errors: the resolution returns the error of the class
C25_Witness ==
    /\ result.kind \in Refs /\ LookedUp(1).res = "Ok"
    /\ LET this == cpool[result.index]
           class == Class_retrieve_from(cpool, this.class)
           name_and_type == NameAndType_retrieve_from(cpool, this.name_and_type)
       IN  /\ class.res # "Ok" /\ name_and_type.res # "Ok"
           /\ class.err # name_and_type.err
           /\ result.out.err = class.err

C27_BoundedDepth ==
    result.kind \in Kinds =>
        /\ result.out.res \in {"Ok", "InvalidIndex", "TagMismatch"}
        /\ result.depth \in 1 .. 3
        /\ Len(result.lookups) \in 1 .. 6

\* a field reference whose name-and-type index refers to the field reference
\* itself: the class is resolved three entries deep, then the cycle ends in
\* an error
C27_Witness ==
    /\ result.kind = "FieldRef" /\ LookedUp(1).res = "Ok"
    /\ cpool[result.index].name_and_type = result.index
    /\ result.depth = 3
    /\ result.out.res = "TagMismatch"

-----------------------------------------------------------------------------
\* AttributeWriter (writer/attributes.rs): the type-state writer of one
\* attribute.  Its state is a type parameter, so an operation of another state
\* does not compile: the guards on aw.state below are that check.  An
\* operation takes the writer by value, so after a failed raw_attribute the
\* writer is gone.  Specification SpecAW makes one AttributeWriter on a buffer
\* that holds a pool part and earlier content and drives it to the end.

\* the names given to raw_attribute: cpool::Insertable::insert returns the
\* index of the name, after inserting the constant if the pool lacks it, or
\* fails
AttributeNames ==
    {[index |-> i, insert |-> c, fails |-> f] :
        i \in 1 .. 2, c \in {<<>>} \cup Constants, f \in BOOLEAN}

\* the contents given to raw_attribute: up to one byte more than a u32 counts
AttributeContents == {Fill(66, n) : n \in 0 .. U32Max + 1}

\* the bytes of one attribute: name index, length, content
RawAttribute(index, bytes) ==
    to_be_bytes(index, 2) \o to_be_bytes(Len(bytes), 4) \o bytes

\* <AttributeWriter<Ctx, Start> as WriteAssembler>::new
AttributeWriter_new == [live |-> "live", state |-> "Start"]

\* a raw_attribute that returns the writer in its Start state
AttributeWriter_raw_attribute_mut(b, pe, name, bytes) ==
    IF Len(bytes) > U32Max
    THEN [res |-> "TooManyBytes", writer |-> [live |-> "dropped", state |-> "Start"],
          buf |-> b, pool_end |-> pe]
    ELSE IF name.fails
    THEN [res |-> "Err", writer |-> [live |-> "dropped", state |-> "Start"],
          buf |-> b, pool_end |-> pe]
    ELSE LET context == IF name.insert = <<>> THEN [buf |-> b, pool_end |-> pe]
                        ELSE ClassWriter_insert_constant(b, pe, name.insert)
         IN  [res |-> "Ok", writer |-> [live |-> "live", state |-> "Start"],
              buf |-> VecEncoder_write_bytes(context.buf, RawAttribute(name.index, bytes)),
              pool_end |-> context.pool_end]

\* AttributeWriter<Ctx, Start>::raw_attribute : the result, the writer
\* returned and the buffer and pool end of the context
AttributeWriter_raw_attribute(b, pe, name, bytes) ==
    IF Len(bytes) > U32Max
    THEN [res |-> "TooManyBytes", writer |-> [live |-> "dropped", state |-> "Start"],
          buf |-> b, pool_end |-> pe]
    ELSE IF name.fails
    THEN [res |-> "Err", writer |-> [live |-> "dropped", state |-> "Start"],
          buf |-> b, pool_end |-> pe]
    ELSE LET context == IF name.insert = <<>> THEN [buf |-> b, pool_end |-> pe]
                        ELSE ClassWriter_insert_constant(b, pe, name.insert)
         IN  [res |-> "Ok", writer |-> [live |-> "live", state |-> "End"],
              buf |-> VecEncoder_write_bytes(context.buf, RawAttribute(name.index, bytes)),
              pool_end |-> context.pool_end]

\* <AttributeWriter<Ctx, End> as WriteDisassembler>::finish
AttributeWriter_finish(w) == [w EXCEPT !.live = "finished"]

\* the record of one call
AWCall(op, res) == [op |-> op, state0 |-> aw.state, res |-> res]

\* let writer = AttributeWriter::new(context)
AttributeWriterNew ==
    /\ aw.live = "unborn"
    /\ aw' = AttributeWriter_new
    /\ result' = AWCall("new", "Ok")
    /\ UNCHANGED <<encoderVars, readerVars, buf, pool_end, build, tsw, cw, lpe,
                   copy, its, lazy, cpool, seen>>

\* let writer = writer.raw_attribute(name, bytes)
AttributeWriterRawAttribute(name, bytes) ==
    /\ aw.live = "live" /\ aw.state = "Start"
    /\ LET r == AttributeWriter_raw_attribute(buf, pool_end, name, bytes)
       IN  /\ aw' = r.writer
           /\ buf' = r.buf
           /\ pool_end' = r.pool_end
           /\ result' = AWCall("raw_attribute", r.res)
           /\ seen' = IF r.res = "Ok"
                      THEN [seen EXCEPT !.attributes = @ + 1,
                                        !.written = RawAttribute(name.index, bytes),
                                        !.inserted = name.insert]
                      ELSE seen
    /\ UNCHANGED <<encoderVars, readerVars, build, tsw, cw, lpe, copy, its, lazy, cpool>>

\* let context = writer.finish()
AttributeWriterFinish ==
    /\ aw.live = "live" /\ aw.state = "End"
    /\ aw' = AttributeWriter_finish(aw)
    /\ result' = AWCall("finish", "Ok")
    /\ UNCHANGED <<encoderVars, readerVars, buf, pool_end, build, tsw, cw, lpe,
                   copy, its, lazy, cpool, seen>>

InitAW ==
    /\ build = "release"
    /\ \E p \in 0 .. MaxPool, t \in 0 .. MaxPool :
           /\ buf = Fill(192, p) \o Fill(208, t)
           /\ pool_end = p
           /\ seen = [attributes |-> 0, head |-> Fill(192, p), mid |-> Fill(208, t),
                      written |-> <<>>, inserted |-> <<>>]
    /\ tsw = NoTableSwitchWriter
    /\ cw = NoCountedWriter
    /\ lpe = NoLengthPrefixedEncoder
    /\ IdleEncoders /\ IdleReader
    /\ copy = NoCopy /\ its = <<>> /\ lazy = NoLazy /\ cpool = <<>>
    /\ aw = NoAttributeWriter
    /\ result = [op |-> "none", state0 |-> "Start", res |-> "Ok"]

NextAW ==
    \/ AttributeWriterNew
    \/ \E name \in AttributeNames, bytes \in AttributeContents :
           AttributeWriterRawAttribute(name, bytes)
    \/ AttributeWriterFinish

SpecAW == InitAW /\ [][NextAW]_vars

\* C28: an AttributeWriter goes from Start to End: raw_attribute is applied
\* in Start only and leaves the writer in End, finish is applied in End only,
\* so a writer in Start has written nothing, a writer in End, and so every
\* finished writer, has written exactly one attribute, which is what follows
\* the earlier content of the buffer.
C28_StartThenEnd ==
    /\ result.op = "raw_attribute" => result.state0 = "Start"
    /\ (result.op = "raw_attribute" /\ result.res = "Ok") => aw.state = "End"
    /\ result.op = "finish" => result.state0 = "End"
    /\ aw.state = "Start" => seen.attributes = 0 /\ aw.live # "finished"
    /\ aw.state = "End" => seen.attributes = 1
    /\ aw.live = "finished" =>
          buf = seen.head \o seen.inserted \o seen.mid \o seen.written

\* a finished writer whose attribute has content and whose name went into the
\* pool
C28_Witness ==
    /\ aw.live = "finished" /\ result.op = "finish"
    /\ seen.inserted # <<>> /\ seen.mid # <<>>
    /\ Len(seen.written) > 6

-----------------------------------------------------------------------------
\* The switch-table writer: arithmetic and failed calls (specification Spec)

\* C29 (as claimed): for all low <= high, after a successful write_high the
\* remaining counter is the mathematical value high - low + 1, without
\* overflow or wrap-around.
C29_RemainingIsHighMinusLowPlusOne ==
    (result.op = "write_high" /\ result.res = "Ok") =>
        tsw.remaining = seen.high - seen.low + 1

\* C30 (as claimed): an operation of the TableSwitchWriter that returns an
\* error appends no bytes to the instruction stream and leaves the state and
\* the remaining counter as they were.
C30_FailedCallChangesNothing ==
    [][(tsw.live = "live" /\ result'.op # "none" /\ result'.res \notin {"Ok", "Panic"}) =>
          /\ buf' = buf
          /\ tsw'.state = tsw.state
          /\ tsw'.remaining = tsw.remaining
      ]_vars

-----------------------------------------------------------------------------
\* Fields (reader/fields.rs): the iterator over the field table.
\* Specification SpecFields decodes a Fields from a field table that stands
\* somewhere in the input, whole or with its last byte missing, and then
\* calls next on it; sub is the decoder of the Fields.

MaxFields == 2

\* the bytes of one attribute with a content of the given length
AttributeBytes(length) == <<0, 1>> \o to_be_bytes(length, 4) \o Fill(7, length)

RECURSIVE AttributeListBytes(_)
AttributeListBytes(lengths) ==
    IF lengths = <<>> THEN <<>>
    ELSE AttributeBytes(Head(lengths)) \o AttributeListBytes(Tail(lengths))

\* the bytes of one field: access flags, name, descriptor, attribute count
\* and attributes
FieldBytes(lengths) ==
    <<0, 1, 0, 2, 0, 3>> \o to_be_bytes(Len(lengths), 2) \o AttributeListBytes(lengths)

RECURSIVE FieldListBytes(_)
FieldListBytes(fields) ==
    IF fields = <<>> THEN <<>>
    ELSE FieldBytes(Head(fields)) \o FieldListBytes(Tail(fields))

\* the fields of the tables, each given by the content lengths of its
\* attributes
FieldShapes == {<<>>, <<1>>, <<0, 2>>}

FieldTables == UNION {[1 .. n -> FieldShapes] : n \in 0 .. MaxFields}

\* what stands before and behind the table; the last could be one more field
Leads == {<<>>, <<5>>}
Trails == {<<>>, <<9>>, <<0, 1, 0, 2, 0, 3, 0, 0>>}

\* <Fields as Iterator>::next : self.decoder.read().ok()
Fields_next(d) ==
    LET r == Field_decode(d)
    IN  [some |-> r.res = "Ok", decoder |-> r.decoder]

\* fields.next()
FieldsNext ==
    /\ sub.live /\ seen.nones < MaxNones
    /\ LET n == Fields_next(sub)
       IN  /\ sub' = n.decoder
           /\ result' = [DCCall("Fields::next", <<>>, Done(sub)) EXCEPT !.some = n.some]
           /\ seen' = IF n.some THEN [seen EXCEPT !.somes = @ + 1]
                      ELSE [seen EXCEPT !.nones = @ + 1]
    /\ UNCHANGED <<otherVars, encoderVars, buf, pool_end, build, tsw, cw, lpe, input, dec, dc>>

InitFields ==
    /\ buf = <<>> /\ pool_end = 0 /\ build = "release"
    /\ tsw = NoTableSwitchWriter
    /\ cw = NoCountedWriter
    /\ lpe = NoLengthPrefixedEncoder
    /\ IdleEncoders /\ IdleOthers
    /\ \E lead \in Leads, fields \in FieldTables, trail \in Trails, whole \in BOOLEAN :
          LET table == to_be_bytes(Len(fields), 2) \o FieldListBytes(fields)
          IN  /\ input = IF whole THEN lead \o table \o trail
                         ELSE lead \o SubSeq(table, 1, Len(table) - 1)
              /\ seen = [count |-> Len(fields), T |-> "Field", somes |-> 0, nones |-> 0,
                         erred |-> FALSE, whole |-> whole, start |-> Len(lead),
                         ends |-> [k \in 0 .. Len(fields) |->
                                      Len(lead) + 2 + Len(FieldListBytes(SubSeq(fields, 1, k)))]]
              /\ dec = Consumed(Decoder_new(input, "Start"), Len(lead))
    /\ sub = NoDecoder
    /\ dc = NoDecodeCounted
    /\ result = DCCall("none", <<>>, Done(dec))

NextFields ==
    \/ result.op = "none" /\ FieldsDecode
    \/ FieldsNext

SpecFields == InitFields /\ [][NextFields]_vars

\* C31: for a well-formed field table of n fields Fields::decode succeeds,
\* leaves the shared cursor just behind the last field and returns an
\* iterator whose decoder holds exactly the bytes of the n fields, without
\* the 2-byte count; the iterator yields the n fields one by one, each next
\* consuming the bytes of one field, and None on every later call; with
\* n = 0 it yields nothing.
C31_FieldsOfTable ==
    LET n == seen.count
    IN  (seen.whole /\ result.op # "none") =>
            /\ result.op = "Fields::decode" =>
                   /\ result.res = "Ok"
                   /\ sub.ctx = "Fields"
                   /\ sub.buf = SubSeq(input, seen.ends[0] + 1, seen.ends[n])
            /\ dec.file_position = seen.ends[n]
            /\ dec.buf = SubSeq(input, seen.ends[n] + 1, Len(input))
            /\ seen.somes <= n
            /\ sub.file_position = seen.ends[seen.somes]
            /\ sub.file_position + Decoder_bytes_remaining(sub) = seen.ends[n]
            /\ result.op = "Fields::next" =>
                   /\ result.some => seen.nones = 0
                   /\ ~result.some => seen.somes = n

\* a table of two fields, the second with attributes, followed by bytes that
\* look like one more field: both fields have been yielded, then None twice
C31_Witness ==
    /\ seen.whole /\ seen.count = 2 /\ seen.somes = 2 /\ seen.nones = 2
    /\ result.op = "Fields::next" /\ ~result.some
    /\ seen.ends[2] - seen.ends[1] > 8
    /\ Len(dec.buf) = 8

=============================================================================
